---- MODULE Spec2Model ----
(***************************************************************************)
(* Model of the search service of eos-V2:                                  *)
(*   app/services/whoosh_simple.py    WhooshSimpleJapanese (index engine)  *)
(*   app/services/search_service.py   SearchService (lru_cache + grouping) *)
(*   app/services/query_processor.py  QueryProcessor (compiled query)      *)
(*                                                                         *)
(* Conventions.  Strings of the program are written in ASCII:              *)
(*   CUST_STATUS2  "keiyaku" = 契約, "shiroji" = 白地, "kako" = 過去,      *)
(*                 "shiroji|kako" = the route's pipe list 白地|過去;       *)
(*   query "no" is the stop word の; " " and "" are blank queries.         *)
(* jcn values are the one-digit strings "1".."9", written as numbers so    *)
(* that Python's string order on them is the order < of the model.         *)
(***************************************************************************)
EXTENDS Integers, Sequences, FiniteSets, TLC

VARIABLES
    index,          \* WhooshSimpleJapanese.ix: committed documents, in docnum order
    cache,          \* the lru_cache of SearchService._cached_search: entries (least
                    \* recently used first) and the hits and misses of cache_info()
    ret,            \* the call that returned last: operation, arguments, returned value
    recent,         \* history: argument tuples searched since the last cache_clear, least recent first
    searched,       \* history (interleaved calls): argument tuples whose search started
                    \* since add_documents_batch last returned True
    pc,             \* per thread: position inside an interleaved call
    local,          \* per thread: local variables of the call in progress
    journal,        \* SearchLogger.log_dir: per journal file (name without .jsonl), its lines
    tables,         \* SearchLogger: _query_counts, _keyword_counts, _user_search_counts,
                    \* _user_history_cache
    now,            \* the wall clock read by datetime.datetime.now()
    lock,           \* SearchLogger._rankings_lock: the thread holding it, 0 when free
    logged,         \* history: the log_search calls whose file append succeeded and that
                    \* have returned, in return order
    shards,         \* MultiIndexSearchService.search_services: per index directory, the
                    \* committed documents of the SearchService opened on it
    writelock,      \* the index directory's write lock (FileIndex.writer): the call
                    \* holding it, 0 when free, -1 when its holder has returned
    csv_cache       \* data/csv_cache: per cache key, the content of <key>.csv

\* The state of the search journal.
journalVars == <<journal, tables, now, lock, logged>>

vars == <<index, cache, ret, recent, searched, pc, local, journal, tables, now, lock,
          logged, shards, writelock, csv_cache>>

----------------------------------------------------------------------------
(* Bounds of the model *)

MaxDocs == 3        \* documents held by the index
MaxBatch == 2       \* records in one add_documents_batch call
MaxCalls == 2       \* cache lookups (hits + misses) between two cache_clear calls
MaxHitList == 3     \* length of a hit list given to _group_by_company
MaxLimit == 130     \* distinct limit values searched with, to fill the cache
MaxRepeatHits == 1  \* hits of repeated searches while the cache is being filled
MaxLog == 3         \* log_search calls on one journal directory, restarts in between
MaxRanked == 5      \* log_search calls before the popular queries are read
MaxOldLines == 2    \* lines of a journal file found at startup
MaxConcLog == 2     \* log_search calls made from parallel threads
MaxClock == 2       \* the latest clock reading
MaxShardDocs == 1   \* documents held by one prefecture index

(* lru_cache(maxsize=128) *)
maxsize == 128

----------------------------------------------------------------------------
(* Inputs *)

\* Ingest records (the keyword arguments of add_document / the dicts of a batch).
\* The fourth record re-uses id "a".
Records ==
    { [id |-> "a", jcn |-> 3, CUST_STATUS2 |-> "keiyaku", prefecture |-> "Tokyo",
       content_tokens |-> {"ai", "ml"}],
      [id |-> "b", jcn |-> 1, CUST_STATUS2 |-> "shiroji", prefecture |-> "tokyo",
       content_tokens |-> {"ai"}],
      [id |-> "c", jcn |-> 2, CUST_STATUS2 |-> "kako", prefecture |-> "OSAKA",
       content_tokens |-> {"ai"}],
      [id |-> "a", jcn |-> 1, CUST_STATUS2 |-> "kako", prefecture |-> "osaka",
       content_tokens |-> {"ml"}] }

\* A batch record without the key 'id' (doc['id'] raises KeyError).
NoIdRecord ==
    [jcn |-> 2, CUST_STATUS2 |-> "shiroji", prefecture |-> "Tokyo",
     content_tokens |-> {"ai"}]

BatchRecords == Records \cup {NoIdRecord}

Ids == {"a", "b", "c"}
Queries == {"ai", "ai ml", " "}
Limits == {1, 10}
Prefectures == {"", "Tokyo", "osaka"}
CustStatuses == {"", "shiroji", "shiroji|kako"}
SortBys == {"", "jcn"}

\* Faults a write can meet: none, ix.writer() raises, writer.commit() raises.
Faults == {"none", "writer", "commit"}

----------------------------------------------------------------------------
(* String functions *)

\* str.lower()
Lower(s) ==
    CASE s = "Tokyo" -> "tokyo"
      [] s = "OSAKA" -> "osaka"
      [] s = "AI" -> "ai"
      [] s = "ML" -> "ml"
      [] s = "AI ML" -> "ai ml"
      [] s = "MeCab" -> "mecab"
      [] OTHER -> s

\* str.strip()
Strip_keeps(s) == s

Strip(s) ==
    CASE s = " " -> ""
      [] s = " ai" -> "ai"
      [] OTHER -> s

\* WhooshSimpleJapanese._tokenize_japanese on a query, then the fallback
\* "processed_query = query_string" when tokenizing leaves nothing
\* (a one-character token such as "no" is dropped by len(word) > 1).
tokenize_japanese(text) ==
    CASE text = "ai" -> {"ai"}
      [] text = "ai ml" -> {"ai", "ml"}
      [] text = "\"ai ml\"" -> {"ai", "ml"}
      [] OTHER -> {}

QueryTerms(query_string) ==
    IF tokenize_japanese(query_string) = {} THEN {query_string}
    ELSE tokenize_japanese(query_string)

\* QueryProcessor.process_advanced_query(query)['processed_query']
process_advanced_query(query) ==
    CASE query = "ai" -> "(ai)"
      [] query = "ai ml" -> "(ai) (ml)"
      [] query = "\"ai ml\"" -> "\"ai ml\""
      [] OTHER -> ""

----------------------------------------------------------------------------
(* WhooshSimpleJapanese: the index and its writer *)

\* The keyword arguments of writer.add_document: what the index keeps of a record.
\* prefecture is stored as prefecture.lower().
StoredDoc_keepcase(rec) ==
    [id |-> rec.id, jcn |-> rec.jcn, CUST_STATUS2 |-> rec.CUST_STATUS2,
     prefecture |-> rec.prefecture, content_tokens |-> rec.content_tokens]

StoredDoc(rec) ==
    [id |-> rec.id, jcn |-> rec.jcn, CUST_STATUS2 |-> rec.CUST_STATUS2,
     prefecture |-> IF rec.prefecture # "" THEN Lower(rec.prefecture) ELSE "",
     content_tokens |-> rec.content_tokens]

\* ix.writer(): a writer buffers its documents until commit or cancel.
NewWriter == <<>>

\* writer.add_document(**fields): appends; an indexed id is not looked up.
writer_add_document(writer, doc) == Append(writer, doc)

\* writer.commit(): the buffered documents become part of the index.
writer_commit(ix, writer) == ix \o writer

\* writer.cancel(): the buffered documents are dropped.
writer_cancel_keeps(ix, writer) == ix \o writer

writer_cancel(ix, writer) == ix

\* writer.delete_by_term('id', doc_id): removes every document with that id.
delete_first_only(ix, doc_id) ==
    IF \E i \in DOMAIN ix : ix[i].id = doc_id
    THEN LET k == CHOOSE i \in DOMAIN ix :
                     ix[i].id = doc_id /\ \A j \in 1..(i-1) : ix[j].id # doc_id
         IN  SubSeq(ix, 1, k-1) \o SubSeq(ix, k+1, Len(ix))
    ELSE ix

delete_by_term(ix, doc_id) == SelectSeq(ix, LAMBDA d : d.id # doc_id)

\* WhooshSimpleJapanese.add_document: returns [ok, ix].
whoosh_add_document(ix, rec, fault) ==
    IF fault = "writer"
    THEN [ok |-> FALSE, ix |-> ix]
    ELSE LET writer == writer_add_document(NewWriter, StoredDoc(rec))
         IN  IF fault = "commit"
             THEN [ok |-> FALSE, ix |-> writer_cancel(ix, writer)]
             ELSE [ok |-> TRUE, ix |-> writer_commit(ix, writer)]

\* The for loop of add_documents_batch: stops at the first record whose
\* doc['id'] raises KeyError.
RECURSIVE batch_loop(_, _)
batch_loop(writer, documents) ==
    IF documents = <<>>
    THEN [raised |-> FALSE, writer |-> writer]
    ELSE IF "id" \notin DOMAIN Head(documents)
         THEN [raised |-> TRUE, writer |-> writer]
         ELSE batch_loop(writer_add_document(writer, StoredDoc(Head(documents))),
                         Tail(documents))

\* WhooshSimpleJapanese.add_documents_batch: returns [ok, ix].
whoosh_add_documents_batch(ix, documents, fault) ==
    IF fault = "writer"
    THEN [ok |-> FALSE, ix |-> ix]
    ELSE LET r == batch_loop(NewWriter, documents)
         IN  IF r.raised \/ fault = "commit"
             THEN [ok |-> FALSE, ix |-> writer_cancel(ix, r.writer)]
             ELSE [ok |-> TRUE, ix |-> writer_commit(ix, r.writer)]

\* WhooshSimpleJapanese.delete_document: returns [ok, ix]; ok is deleted_count > 0.
whoosh_delete_document(ix, doc_id, fault) ==
    IF fault # "none"
    THEN [ok |-> FALSE, ix |-> ix, deleted_count |-> 0]
    ELSE [ok |-> Len(ix) - Len(delete_by_term(ix, doc_id)) > 0,
          ix |-> delete_by_term(ix, doc_id),
          deleted_count |-> Len(ix) - Len(delete_by_term(ix, doc_id))]

\* WhooshSimpleJapanese.clear_index: rmtree, makedirs, create_in.
whoosh_clear_index(ix, fault) ==
    IF fault # "none"
    THEN [ok |-> FALSE, ix |-> ix]
    ELSE [ok |-> TRUE, ix |-> <<>>]

\* WhooshSimpleJapanese.get_document_count
get_document_count(ix) == Len(ix)

----------------------------------------------------------------------------
(* WhooshSimpleJapanese.search *)

\* parser.parse(processed_query) with group=OrGroup: a document matches when
\* its content_tokens hold one of the query's terms.
Matches(doc, query_string) == doc.content_tokens \cap QueryTerms(query_string) # {}

\* The score of a match, coarsely: the number of query terms the document holds.
Score(doc, query_string) == Cardinality(doc.content_tokens \cap QueryTerms(query_string))

\* filter_query: Term("prefecture", prefecture.lower()) when prefecture is given
\* (the prefecture field is KEYWORD(lowercase=True): its indexed term is the
\* lowercased value), Term("CUST_STATUS2", cust_status) when cust_status is
\* given, joined by And.
PassesFilter(doc, prefecture, cust_status) ==
    /\ prefecture # "" => Lower(doc.prefecture) = Lower(prefecture)
    /\ cust_status # "" => doc.CUST_STATUS2 = cust_status

\* The order of the results: FieldFacet("jcn") when sort_by = "jcn", the
\* score (highest first) otherwise; equal keys keep docnum order.
Before(ix, query_string, sort_by, i, j) ==
    IF sort_by = "jcn"
    THEN \/ ix[i].jcn < ix[j].jcn
         \/ ix[i].jcn = ix[j].jcn /\ i <= j
    ELSE \/ Score(ix[i], query_string) > Score(ix[j], query_string)
         \/ Score(ix[i], query_string) = Score(ix[j], query_string) /\ i <= j

RECURSIVE Ordered(_, _, _, _)
Ordered(ix, query_string, sort_by, docnums) ==
    IF docnums = {}
    THEN <<>>
    ELSE LET first == CHOOSE i \in docnums :
                          \A j \in docnums : Before(ix, query_string, sort_by, i, j)
         IN  <<first>> \o Ordered(ix, query_string, sort_by, docnums \ {first})

\* The first `limit` entries of a sequence.
Take(seq, limit) == SubSeq(seq, 1, IF Len(seq) < limit THEN Len(seq) ELSE limit)

\* One entry of search_results, built from the stored fields of a result.
Hit(doc, query_string) ==
    [id |-> doc.id, jcn |-> doc.jcn, CUST_STATUS2 |-> doc.CUST_STATUS2,
     prefecture |-> doc.prefecture, score |-> Score(doc, query_string),
     matched_terms |-> doc.content_tokens \cap QueryTerms(query_string)]

\* searcher.search(query, limit=limit, filter=filter_query, sortedby=sort_facet):
\* the docnums of the results, in result order.
searcher_search_limit_then_sort(ix, query_string, limit, prefecture, cust_status, sort_by) ==
    LET matching == {i \in DOMAIN ix : /\ Matches(ix[i], query_string)
                                       /\ PassesFilter(ix[i], prefecture, cust_status)}
        top == Take(Ordered(ix, query_string, "", matching), limit)
    IN  Ordered(ix, query_string, sort_by, {top[k] : k \in DOMAIN top})

searcher_search(ix, query_string, limit, prefecture, cust_status, sort_by) ==
    LET matching == {i \in DOMAIN ix : /\ Matches(ix[i], query_string)
                                       /\ PassesFilter(ix[i], prefecture, cust_status)}
    IN  Take(Ordered(ix, query_string, sort_by, matching), limit)

\* WhooshSimpleJapanese.search: the list of hits.
whoosh_search(ix, query_string, limit, prefecture, cust_status, sort_by) ==
    IF Strip(query_string) = ""
    THEN <<>>
    ELSE LET results == searcher_search(ix, query_string, limit, prefecture,
                                        cust_status, sort_by)
         IN  [k \in DOMAIN results |-> Hit(ix[results[k]], query_string)]

----------------------------------------------------------------------------
(* SearchService: grouping and the response envelope *)

\* The entry appended to company_groups[jcn]['urls'] for one result.
UrlEntry(result) ==
    [id |-> result.id, score |-> result.score, matched_terms |-> result.matched_terms]

\* The dict created for a jcn seen for the first time: the company fields of
\* that result, and no urls yet.
NewGroup(result) ==
    [jcn |-> result.jcn, CUST_STATUS2 |-> result.CUST_STATUS2,
     prefecture |-> result.prefecture, urls |-> <<>>]

\* The for loop of _group_by_company; company_groups is a dict, kept here as
\* the sequence of its values in insertion order.
RECURSIVE company_groups(_, _)
company_groups(groups, results) ==
    IF results = <<>>
    THEN groups
    ELSE LET result == Head(results)
             known == \E g \in DOMAIN groups : groups[g].jcn = result.jcn
             withGroup == IF known THEN groups ELSE Append(groups, NewGroup(result))
             added == [g \in DOMAIN withGroup |->
                          IF withGroup[g].jcn = result.jcn
                          THEN [withGroup[g] EXCEPT !.urls = Append(@, UrlEntry(result))]
                          ELSE withGroup[g]]
         IN  company_groups(added, Tail(results))

\* grouped_companies.sort(key=lambda x: x['jcn']): a stable ascending sort.
RECURSIVE sort_by_jcn(_)
sort_by_jcn(groups) ==
    IF groups = <<>>
    THEN <<>>
    ELSE LET m == CHOOSE i \in DOMAIN groups :
                      /\ \A j \in DOMAIN groups : groups[i].jcn <= groups[j].jcn
                      /\ \A j \in 1..(i-1) : groups[j].jcn # groups[i].jcn
         IN  <<groups[m]>> \o
             sort_by_jcn(SubSeq(groups, 1, m-1) \o SubSeq(groups, m+1, Len(groups)))

\* SearchService._group_by_company
group_by_company_unsorted(results) ==
    IF results = <<>> THEN <<>> ELSE company_groups(<<>>, results)

group_by_company(results) ==
    IF results = <<>> THEN <<>> ELSE sort_by_jcn(company_groups(<<>>, results))

\* The dict returned by SearchService.search for a non-blank query.
Envelope(query, results, processed_query) ==
    [grouped_results |-> group_by_company(results),
     total_found |-> Len(results),
     total_companies |-> Len(group_by_company(results)),
     query |-> query,
     processed_query |-> processed_query]

\* The dict returned by SearchService.search for a blank query.
ZeroEnvelope(query) ==
    [grouped_results |-> <<>>, total_found |-> 0, total_companies |-> 0,
     query |-> query, processed_query |-> ""]

----------------------------------------------------------------------------
(* SearchService._cached_search and its lru_cache *)

\* The argument tuple the lru_cache keys on.
Key(query, limit, prefecture, cust_status, sort_by) ==
    [query |-> query, limit |-> limit, prefecture |-> prefecture,
     cust_status |-> cust_status, sort_by |-> sort_by]

\* The body of _cached_search: the cached value and the number of calls of
\* search_engine.search it made.
cached_search(ix, key) ==
    LET processed_query == process_advanced_query(key.query)
    IN  IF processed_query = ""
        THEN [results |-> <<>>, processed_query |-> processed_query, engine_calls |-> 0]
        ELSE [results |-> whoosh_search(ix, key.query, key.limit, key.prefecture,
                                        key.cust_status, key.sort_by),
              processed_query |-> processed_query, engine_calls |-> 1]

CachedKeys(c) == {c.entries[i].key : i \in DOMAIN c.entries}

Position(c, key) == CHOOSE i \in DOMAIN c.entries : c.entries[i].key = key

\* The value cached for a key.
CachedValue(c, key) == c.entries[Position(c, key)].value

\* lru_cache, key found: a hit is counted and the entry becomes the most
\* recently used.
lru_hit_keeps_position(c, key) == [c EXCEPT !.hits = @ + 1]

lru_hit(c, key) ==
    LET i == Position(c, key)
    IN  [c EXCEPT !.hits = @ + 1,
                  !.entries = SubSeq(@, 1, i-1) \o SubSeq(@, i+1, Len(@)) \o <<@[i]>>]

\* lru_cache, key not found: a miss is counted before the function is called.
lru_miss(c) == [c EXCEPT !.misses = @ + 1]

\* lru_cache, after the call: the result is stored unless the key was stored
\* meanwhile; a full cache drops its least recently used entry.
lru_store_one_short(c, key, value) ==
    IF key \in CachedKeys(c)
    THEN c
    ELSE IF Len(c.entries) >= maxsize - 1
         THEN [c EXCEPT !.entries = Append(Tail(@), [key |-> key, value |-> value])]
         ELSE [c EXCEPT !.entries = Append(@, [key |-> key, value |-> value])]

lru_store(c, key, value) ==
    IF key \in CachedKeys(c)
    THEN c
    ELSE IF Len(c.entries) >= maxsize
         THEN [c EXCEPT !.entries = Append(Tail(@), [key |-> key, value |-> value])]
         ELSE [c EXCEPT !.entries = Append(@, [key |-> key, value |-> value])]

\* _cached_search.cache_clear(): drops the entries and zeroes hits and misses.
cache_clear_noop(c) == c

cache_clear(c) == [entries |-> <<>>, hits |-> 0, misses |-> 0]

\* SearchService.get_stats: cache_hits, cache_misses, cache_size.
cache_hits == cache.hits
cache_misses == cache.misses
cache_size == Len(cache.entries)

----------------------------------------------------------------------------
(* SearchLogger: journal lines, dicts and the tables built from them.
   Logged queries are written in ASCII: "ML" stands for 機械学習. *)

Usernames == {"ab", "a/b", "cd"}
LogQueries == {"AI", " ai", "ML", "AI ML", " "}

\* _get_user_log_file: the file name (without .jsonl) keeps the characters of
\* the username that are alphanumeric or one of "_-.".
safe_username(username) == IF username = "a/b" THEN "ab" ELSE username

\* os.path.basename(user_file).replace('.jsonl', ''), for the file named
\* file + ".jsonl": replace removes every occurrence of '.jsonl'.
username_of_file(file) == IF file = "a.jsonl" THEN "a" ELSE file

\* QueryProcessor.normalize_query: strip, fold and collapse whitespace.
normalize_query(query) ==
    CASE query = " " -> ""
      [] query = " ai" -> "ai"
      [] OTHER -> query

\* SearchLogger._extract_keywords on a normalized lowercased query.
extract_keywords(query) ==
    CASE query = "ai" -> <<"ai">>
      [] query = "ml" -> <<"ml">>
      [] query = "ai ml" -> <<"ai", "ml">>
      [] OTHER -> <<>>

\* A dict, as the sequence of its items in insertion order.
dict_has(d, k) == \E i \in DOMAIN d : d[i].key = k

dict_get(d, k, default) ==
    IF dict_has(d, k) THEN d[CHOOSE i \in DOMAIN d : d[i].key = k].value ELSE default

dict_set(d, k, v) ==
    IF dict_has(d, k)
    THEN [i \in DOMAIN d |-> IF d[i].key = k THEN [key |-> k, value |-> v] ELSE d[i]]
    ELSE Append(d, [key |-> k, value |-> v])

dict_keys(d) == {d[i].key : i \in DOMAIN d}

\* counts[k] += 1 on a defaultdict(int); counts[k] = counts.get(k, 0) + 1 on a dict.
dict_increment_resets(d, k) == dict_set(d, k, 1)

dict_increment(d, k) == dict_set(d, k, dict_get(d, k, 0) + 1)

RECURSIVE count_keywords(_, _)
count_keywords(keyword_counts, keywords) ==
    IF keywords = <<>>
    THEN keyword_counts
    ELSE count_keywords(IF Head(keywords) # ""
                        THEN dict_increment(keyword_counts, Head(keywords))
                        ELSE keyword_counts,
                        Tail(keywords))

\* The four tables of a SearchLogger, as __init__ creates them.
EmptyTables ==
    [query_counts |-> <<>>, keyword_counts |-> <<>>,
     user_search_counts |-> <<>>, user_history |-> <<>>]

\* log_entry of log_search (results_count, search_time and the optional
\* fields are payload and left out).
LogEntry(query, timestamp) ==
    [timestamp |-> timestamp, query |-> normalize_query(query)]

\* json.dumps(log_entry) + '\n': a line holding a JSON object.  A journal file
\* can also hold a line that is not JSON and a line that is JSON but no object.
json_dumps(entry) == [json |-> "object", entry |-> entry]
GarbageLine == [json |-> "invalid"]
NonObjectLine == [json |-> "array"]

\* json.loads(line.strip()): raises JSONDecodeError on a line that is not JSON.
json_loads(line) ==
    CASE line.json = "invalid" -> [raised |-> "JSONDecodeError"]
      [] line.json = "object" -> [raised |-> "none", is_dict |-> TRUE, value |-> line.entry]
      [] OTHER -> [raised |-> "none", is_dict |-> FALSE, value |-> <<>>]

\* with open(user_log_file, 'a') as f: f.write(line).  Returns [ok, journal].
file_append_unreported(jr, file, line, fault) ==
    IF fault # "none"
    THEN [ok |-> TRUE, journal |-> jr]
    ELSE [ok |-> TRUE,
          journal |-> [f \in DOMAIN jr \cup {file} |->
                          IF f = file
                          THEN (IF f \in DOMAIN jr THEN jr[f] ELSE <<>>) \o <<line>>
                          ELSE jr[f]]]

file_append(jr, file, line, fault) ==
    IF fault # "none"
    THEN [ok |-> FALSE, journal |-> jr]
    ELSE [ok |-> TRUE,
          journal |-> [f \in DOMAIN jr \cup {file} |->
                          IF f = file
                          THEN (IF f \in DOMAIN jr THEN jr[f] ELSE <<>>) \o <<line>>
                          ELSE jr[f]]]

\* The block of log_search run under _rankings_lock (lines 152-168).
update_tables(t, username, log_entry) ==
    LET query_key == Lower(Strip(log_entry.query))
    IN  [query_counts |-> dict_increment(t.query_counts, query_key),
         user_search_counts |-> dict_increment(t.user_search_counts, username),
         user_history |-> dict_set(t.user_history, username,
                                   <<log_entry>> \o dict_get(t.user_history, username, <<>>)),
         keyword_counts |-> count_keywords(t.keyword_counts, extract_keywords(query_key))]

\* sorted(user_entries, key=lambda x: x.get('timestamp', ''), reverse=True):
\* latest timestamp first; entries with equal timestamps keep their order.
RECURSIVE sorted_by_timestamp_reverse(_)
sorted_by_timestamp_reverse(entries) ==
    IF entries = <<>>
    THEN <<>>
    ELSE LET m == CHOOSE i \in DOMAIN entries :
                      /\ \A j \in DOMAIN entries :
                             entries[i].timestamp >= entries[j].timestamp
                      /\ \A j \in 1..(i-1) :
                             entries[j].timestamp # entries[i].timestamp
         IN  <<entries[m]>> \o
             sorted_by_timestamp_reverse(SubSeq(entries, 1, m-1)
                                            \o SubSeq(entries, m+1, Len(entries)))

\* The body of "for line in f" in _initialize_rankings.  json.loads raising
\* JSONDecodeError skips the line; entry.get on a value that is no dict raises
\* AttributeError, which no handler inside the loops catches.
load_line(st, username, line) ==
    LET parsed == json_loads(line)
    IN  IF parsed.raised = "JSONDecodeError"
        THEN st
        ELSE IF ~parsed.is_dict
             THEN [st EXCEPT !.raised = TRUE]
             ELSE LET entry == parsed.value
                      normalized_query == Lower(normalize_query(entry.query))
                  IN  IF normalized_query = ""
                      THEN st
                      ELSE [st EXCEPT
                               !.query_counts = dict_increment(@, normalized_query),
                               !.user_search_counts = dict_increment(@, username),
                               !.user_entries = Append(@, entry),
                               !.keyword_counts =
                                   count_keywords(@, extract_keywords(normalized_query))]

RECURSIVE load_lines(_, _, _)
load_lines(st, username, lines) ==
    IF lines = <<>> \/ st.raised
    THEN st
    ELSE load_lines(load_line(st, username, Head(lines)), username, Tail(lines))

\* The body of "for user_file in user_files", over the files in glob order.
RECURSIVE load_files(_, _, _)
load_files(st, jr, user_files) ==
    IF user_files = <<>> \/ st.raised
    THEN st
    ELSE LET username == username_of_file(Head(user_files))
             read == load_lines([st EXCEPT !.user_entries = <<>>], username,
                                jr[Head(user_files)])
         IN  IF read.raised
             THEN read
             ELSE load_files([read EXCEPT !.user_history =
                                 dict_set(@, username,
                                          sorted_by_timestamp_reverse(read.user_entries))],
                             jr, Tail(user_files))

\* SearchLogger._initialize_rankings on a fresh logger: the tables built from
\* the journal files, read in the order glob lists them; any exception
\* leaves the four tables empty.
initialize_rankings(jr, user_files) ==
    LET st == load_files([raised |-> FALSE, query_counts |-> <<>>,
                          keyword_counts |-> <<>>, user_search_counts |-> <<>>,
                          user_history |-> <<>>, user_entries |-> <<>>],
                         jr, user_files)
    IN  IF st.raised
        THEN EmptyTables
        ELSE [query_counts |-> st.query_counts, keyword_counts |-> st.keyword_counts,
              user_search_counts |-> st.user_search_counts,
              user_history |-> st.user_history]

\* glob.glob(log_dir/*.jsonl): the existing files, in an order the file
\* system decides.
GlobOrders(jr) ==
    {order \in [1..Cardinality(DOMAIN jr) -> DOMAIN jr] :
        \A i, j \in DOMAIN order : order[i] = order[j] => i = j}

\* The readers of the tables.
\* sorted(items, key=lambda x: x[1], reverse=True): largest count first; items
\* with equal counts keep their insertion order.
RECURSIVE sorted_by_count_reverse(_)
sorted_by_count_reverse(items) ==
    IF items = <<>>
    THEN <<>>
    ELSE LET m == CHOOSE i \in DOMAIN items :
                      /\ \A j \in DOMAIN items : items[i].value >= items[j].value
                      /\ \A j \in 1..(i-1) : items[j].value # items[i].value
         IN  <<items[m]>> \o
             sorted_by_count_reverse(SubSeq(items, 1, m-1)
                                        \o SubSeq(items, m+1, Len(items)))

\* SearchLogger.get_popular_queries(limit): [{"query": q, "count": n}, ...]
popular_queries_unsorted(t, limit) ==
    LET popular == Take(t.query_counts, limit)
    IN  [i \in DOMAIN popular |-> [query |-> popular[i].key, count |-> popular[i].value]]

popular_queries(t, limit) ==
    LET popular == Take(sorted_by_count_reverse(t.query_counts), limit)
    IN  [i \in DOMAIN popular |-> [query |-> popular[i].key, count |-> popular[i].value]]

\* SearchLogger.get_user_searches(username, limit)
user_searches(t, username, limit) ==
    Take(dict_get(t.user_history, username, <<>>), limit)

RECURSIVE sum_values(_)
sum_values(d) == IF d = <<>> THEN 0 ELSE Head(d).value + sum_values(Tail(d))

\* SearchLogger.get_rankings_stats()
rankings_stats(t) ==
    [total_queries |-> sum_values(t.query_counts),
     unique_queries |-> Len(t.query_counts),
     total_keywords |-> sum_values(t.keyword_counts),
     unique_keywords |-> Len(t.keyword_counts)]

----------------------------------------------------------------------------
(* State after construction: an empty index directory, an empty cache *)

Threads == {1, 2}

\* No SearchLogger and no MultiIndexSearchService has been constructed.
NoJournal ==
    /\ journal = <<>>
    /\ tables = <<>>
    /\ now = 0
    /\ lock = 0
    /\ logged = <<>>

NoRouter == shards = <<>>

\* No write in progress, and an empty export cache directory.
NoExport ==
    /\ writelock = 0
    /\ csv_cache = <<>>

Init ==
    /\ index = <<>>
    /\ cache = [entries |-> <<>>, hits |-> 0, misses |-> 0]
    /\ ret = [op |-> "init"]
    /\ recent = <<>>
    /\ searched = {}
    /\ pc = [t \in Threads |-> "idle"]
    /\ local = [t \in Threads |-> [op |-> "none"]]
    /\ NoJournal
    /\ NoRouter
    /\ NoExport

\* The ids of the indexed documents.
IndexedIds(ix) == {ix[i].id : i \in DOMAIN ix}

\* A sequence without one of its values, and with it moved to the end.
Without(seq, x) == SelectSeq(seq, LAMBDA y : y # x)
MostRecent(seq, x) == Append(Without(seq, x), x)

\* Batches of at most MaxBatch records.
Batches == UNION {[1..n -> BatchRecords] : n \in 0..MaxBatch}

----------------------------------------------------------------------------
(* The index engine called directly (WhooshSimpleJapanese) *)

Engine_add_document ==
    \E rec \in Records, fault \in Faults :
        LET r == whoosh_add_document(index, rec, fault)
        IN  /\ Len(index) < MaxDocs
            /\ index' = r.ix
            /\ ret' = [op |-> "whoosh.add_document", doc_id |-> rec.id,
                       fault |-> fault, ok |-> r.ok]
            /\ UNCHANGED <<cache, recent, searched, pc, local, journalVars, shards, writelock, csv_cache>>

Engine_add_documents_batch ==
    \E documents \in Batches, fault \in Faults :
        LET r == whoosh_add_documents_batch(index, documents, fault)
        IN  /\ Len(index) + Len(documents) <= MaxDocs
            /\ index' = r.ix
            /\ ret' = [op |-> "whoosh.add_documents_batch", documents |-> documents,
                       fault |-> fault, ok |-> r.ok]
            /\ UNCHANGED <<cache, recent, searched, pc, local, journalVars, shards, writelock, csv_cache>>

Engine_delete_document ==
    \E doc_id \in Ids, fault \in Faults :
        LET r == whoosh_delete_document(index, doc_id, fault)
        IN  /\ index' = r.ix
            /\ ret' = [op |-> "whoosh.delete_document", doc_id |-> doc_id,
                       fault |-> fault, ok |-> r.ok]
            /\ UNCHANGED <<cache, recent, searched, pc, local, journalVars, shards, writelock, csv_cache>>

Engine_clear_index ==
    \E fault \in {"none", "rmtree"} :
        LET r == whoosh_clear_index(index, fault)
        IN  /\ index' = r.ix
            /\ ret' = [op |-> "whoosh.clear_index", fault |-> fault, ok |-> r.ok]
            /\ UNCHANGED <<cache, recent, searched, pc, local, journalVars, shards, writelock, csv_cache>>

Engine_search ==
    \E query \in Queries, limit \in Limits, prefecture \in Prefectures,
       cust_status \in CustStatuses, sort_by \in SortBys :
        /\ ret' = [op |-> "whoosh.search",
                   key |-> Key(query, limit, prefecture, cust_status, sort_by),
                   hits |-> whoosh_search(index, query, limit, prefecture,
                                          cust_status, sort_by)]
        /\ UNCHANGED <<index, cache, recent, searched, pc, local, journalVars, shards, writelock, csv_cache>>

NextEngine ==
    \/ Engine_add_document
    \/ Engine_add_documents_batch
    \/ Engine_delete_document
    \/ Engine_clear_index
    \/ Engine_search

SpecEngine == Init /\ [][NextEngine]_vars

----------------------------------------------------------------------------
(* SearchService, one call at a time *)

\* The argument tuples the service is searched with.
ServiceKeys ==
    { Key("ai", 10, "", "", ""),
      Key("ai ml", 1, "Tokyo", "", "jcn"),
      Key("ai", 10, "", "shiroji", ""),
      Key("no", 10, "", "", ""),
      Key(" ", 10, "", "", ""),
      Key("", 10, "", "", "") }

\* SearchService.search(query, limit, prefecture, cust_status, sort_by)
SearchCall(key) ==
    IF Strip(key.query) = ""
    THEN /\ ret' = [op |-> "search", key |-> key, blank |-> TRUE, hit |-> FALSE,
                    engine_calls |-> 0, result |-> ZeroEnvelope(key.query)]
         /\ UNCHANGED <<index, cache, recent>>
    ELSE IF key \in CachedKeys(cache)
         THEN LET value == CachedValue(cache, key)
              IN  /\ cache' = lru_hit(cache, key)
                  /\ recent' = MostRecent(recent, key)
                  /\ ret' = [op |-> "search", key |-> key, blank |-> FALSE,
                             hit |-> TRUE, engine_calls |-> 0,
                             result |-> Envelope(key.query, value.results,
                                                 value.processed_query)]
                  /\ UNCHANGED index
         ELSE LET r == cached_search(index, key)
                  value == [results |-> r.results, processed_query |-> r.processed_query]
              IN  /\ cache' = lru_store(lru_miss(cache), key, value)
                  /\ recent' = MostRecent(recent, key)
                  /\ ret' = [op |-> "search", key |-> key, blank |-> FALSE,
                             hit |-> FALSE, engine_calls |-> r.engine_calls,
                             result |-> Envelope(key.query, value.results,
                                                 value.processed_query)]
                  /\ UNCHANGED index

search ==
    \E key \in ServiceKeys :
        /\ cache.hits + cache.misses < MaxCalls
        /\ SearchCall(key)
        /\ UNCHANGED <<searched, pc, local, journalVars, shards, writelock, csv_cache>>

\* SearchService.add_document
add_document ==
    \E rec \in Records, fault \in Faults :
        LET r == whoosh_add_document(index, rec, fault)
        IN  /\ Len(index) < MaxDocs
            /\ index' = r.ix
            /\ cache' = cache_clear(cache)
            /\ recent' = <<>>
            /\ ret' = [op |-> "add_document", doc_id |-> rec.id, fault |-> fault,
                       ok |-> r.ok, size_before |-> Len(cache.entries)]
            /\ UNCHANGED <<searched, pc, local, journalVars, shards, writelock, csv_cache>>

\* SearchService.add_documents_batch
add_documents_batch ==
    \E documents \in Batches, fault \in Faults :
        LET r == whoosh_add_documents_batch(index, documents, fault)
        IN  /\ Len(index) + Len(documents) <= MaxDocs
            /\ index' = r.ix
            /\ cache' = cache_clear(cache)
            /\ recent' = <<>>
            /\ ret' = [op |-> "add_documents_batch", documents |-> documents,
                       fault |-> fault, ok |-> r.ok,
                       size_before |-> Len(cache.entries)]
            /\ UNCHANGED <<searched, pc, local, journalVars, shards, writelock, csv_cache>>

\* SearchService.delete_document
delete_document ==
    \E doc_id \in Ids, fault \in Faults :
        LET r == whoosh_delete_document(index, doc_id, fault)
        IN  /\ index' = r.ix
            /\ cache' = cache_clear(cache)
            /\ recent' = <<>>
            /\ ret' = [op |-> "delete_document", doc_id |-> doc_id, fault |-> fault,
                       ok |-> r.ok, deleted_count |-> r.deleted_count,
                       size_before |-> Len(cache.entries)]
            /\ UNCHANGED <<searched, pc, local, journalVars, shards, writelock, csv_cache>>

\* SearchService.clear_index
clear_index ==
    \E fault \in {"none", "rmtree"} :
        LET r == whoosh_clear_index(index, fault)
        IN  /\ index' = r.ix
            /\ cache' = cache_clear(cache)
            /\ recent' = <<>>
            /\ ret' = [op |-> "clear_index", fault |-> fault, ok |-> r.ok,
                       size_before |-> Len(cache.entries)]
            /\ UNCHANGED <<searched, pc, local, journalVars, shards, writelock, csv_cache>>

\* SearchService.clear_cache
clear_cache ==
    /\ cache' = cache_clear(cache)
    /\ recent' = <<>>
    /\ ret' = [op |-> "clear_cache", size_before |-> Len(cache.entries)]
    /\ UNCHANGED <<index, searched, pc, local, journalVars, shards, writelock, csv_cache>>

Next ==
    \/ search
    \/ add_document
    \/ add_documents_batch
    \/ delete_document
    \/ clear_index
    \/ clear_cache

Spec == Init /\ [][Next]_vars

----------------------------------------------------------------------------
(* SearchService._group_by_company on arbitrary hit lists *)

\* Hits as WhooshSimpleJapanese.search builds them.
HitPool ==
    [id : {"a", "b"}, jcn : 1..3, CUST_STATUS2 : {"keiyaku", "kako"},
     prefecture : {"tokyo"}, score : {1}, matched_terms : {{"ai"}}]

HitLists == UNION {[1..n -> HitPool] : n \in 0..MaxHitList}

InitGroup ==
    /\ index = <<>>
    /\ cache = [entries |-> <<>>, hits |-> 0, misses |-> 0]
    /\ ret \in [op : {"results"}, results : HitLists]
    /\ recent = <<>>
    /\ searched = {}
    /\ pc = [t \in Threads |-> "idle"]
    /\ local = [t \in Threads |-> [op |-> "none"]]
    /\ NoJournal
    /\ NoRouter
    /\ NoExport

\* SearchService.search, from the results of _cached_search to the envelope.
group_results ==
    /\ ret.op = "results"
    /\ ret' = [op |-> "envelope", results |-> ret.results,
               result |-> Envelope("ai", ret.results, "(ai)")]
    /\ UNCHANGED <<index, cache, recent, searched, pc, local, journalVars, shards, writelock, csv_cache>>

NextGroup == group_results

SpecGroup == InitGroup /\ [][NextGroup]_vars

----------------------------------------------------------------------------
(* SearchService.search and add_documents_batch called from parallel threads.
   lru_cache looks the key up and counts under its lock, calls the function
   outside the lock, and stores the result under the lock again; the threads
   interleave between these steps and between the engine call and the
   cache_clear of add_documents_batch. *)

ConcKeys ==
    { Key("ai", 10, "", "", ""),
      Key("ai ml", 1, "Tokyo", "", "jcn") }

\* The batches the threads add: empty, the record with id "b", or the
\* record without id.
ConcBatches ==
    {<<>>} \cup {<<rec>> : rec \in {r \in BatchRecords : "id" \in DOMAIN r => r.id = "b"}}

\* search, up to the cache lookup: a hit returns, a miss goes on to the call.
search_lookup(t) ==
    \E key \in ConcKeys :
        /\ pc[t] = "idle"
        /\ cache.hits + cache.misses < MaxCalls
        /\ searched' = searched \cup {key}
        /\ IF key \in CachedKeys(cache)
           THEN LET value == CachedValue(cache, key)
                IN  /\ cache' = lru_hit(cache, key)
                    /\ ret' = [op |-> "search", key |-> key, hit |-> TRUE,
                               first |-> key \notin searched,
                               result |-> Envelope(key.query, value.results,
                                                   value.processed_query)]
                    /\ UNCHANGED <<pc, local>>
           ELSE /\ cache' = lru_miss(cache)
                /\ pc' = [pc EXCEPT ![t] = "call"]
                /\ local' = [local EXCEPT ![t] = [op |-> "search", key |-> key,
                                                  first |-> key \notin searched]]
                /\ UNCHANGED ret
        /\ UNCHANGED <<index, recent, journalVars, shards, writelock, csv_cache>>

\* The body of _cached_search runs on the index as it is now.
search_call(t) ==
    /\ pc[t] = "call"
    /\ LET r == cached_search(index, local[t].key)
       IN  local' = [local EXCEPT ![t] =
                        [op |-> "search", key |-> local[t].key, first |-> local[t].first,
                         value |-> [results |-> r.results,
                                    processed_query |-> r.processed_query]]]
    /\ pc' = [pc EXCEPT ![t] = "store"]
    /\ UNCHANGED <<index, cache, ret, recent, searched, journalVars, shards, writelock, csv_cache>>

\* lru_cache stores the result; search groups it and returns.
search_return(t) ==
    /\ pc[t] = "store"
    /\ cache' = lru_store(cache, local[t].key, local[t].value)
    /\ ret' = [op |-> "search", key |-> local[t].key, hit |-> FALSE,
               first |-> local[t].first,
               result |-> Envelope(local[t].key.query, local[t].value.results,
                                   local[t].value.processed_query)]
    /\ pc' = [pc EXCEPT ![t] = "idle"]
    /\ local' = [local EXCEPT ![t] = [op |-> "none"]]
    /\ UNCHANGED <<index, recent, searched, journalVars, shards, writelock, csv_cache>>

\* add_documents_batch, the engine call (search_service.py line 152).
batch_engine(t) ==
    \E documents \in ConcBatches, fault \in Faults :
        LET r == whoosh_add_documents_batch(index, documents, fault)
        IN  /\ pc[t] = "idle"
            /\ Len(index) + Len(documents) <= MaxDocs
            /\ index' = r.ix
            /\ pc' = [pc EXCEPT ![t] = "clear"]
            /\ local' = [local EXCEPT ![t] = [op |-> "add_documents_batch",
                                              ok |-> r.ok]]
            /\ UNCHANGED <<cache, ret, recent, searched, journalVars, shards, writelock, csv_cache>>

\* add_documents_batch, cache_clear() and return (lines 154-155).
batch_return(t) ==
    /\ pc[t] = "clear"
    /\ cache' = cache_clear(cache)
    /\ ret' = [op |-> "add_documents_batch", ok |-> local[t].ok]
    /\ searched' = IF local[t].ok THEN {} ELSE searched
    /\ pc' = [pc EXCEPT ![t] = "idle"]
    /\ local' = [local EXCEPT ![t] = [op |-> "none"]]
    /\ UNCHANGED <<index, recent, journalVars, shards, writelock, csv_cache>>

NextConc ==
    \E t \in Threads :
        \/ search_lookup(t)
        \/ search_call(t)
        \/ search_return(t)
        \/ batch_engine(t)
        \/ batch_return(t)

SpecConc == Init /\ [][NextConc]_vars

----------------------------------------------------------------------------
(* SearchService searched with more argument tuples than the cache holds.
   The tuples differ in limit only; a search either repeats limit 1 or uses
   the smallest limit not searched since the cache was last cleared. *)

search_many ==
    \E limit \in 1..MaxLimit :
        /\ limit = 1 \/ limit = Len(recent) + 1
        /\ (limit = 1 /\ recent # <<>>) => cache.hits < MaxRepeatHits
        /\ cache.misses <= MaxLimit
        /\ SearchCall(Key("ai", limit, "", "", ""))
        /\ UNCHANGED <<searched, pc, local, journalVars, shards, writelock, csv_cache>>

NextLRU ==
    \/ search_many
    \/ clear_index
    \/ clear_cache

SpecLRU == Init /\ [][NextLRU]_vars

----------------------------------------------------------------------------
(* SearchLogger, one call at a time, on a journal directory that starts empty;
   a new SearchLogger may be constructed over the directory between calls. *)

LogFaults == {"none", "open"}

\* The search service idles while the journal is exercised.
ServiceIdle == UNCHANGED <<index, cache, recent, searched, pc, local, shards, writelock, csv_cache>>

\* A SearchLogger constructed over an empty log directory.
InitJournal ==
    /\ index = <<>>
    /\ cache = [entries |-> <<>>, hits |-> 0, misses |-> 0]
    /\ ret = [op |-> "SearchLogger"]
    /\ recent = <<>>
    /\ searched = {}
    /\ pc = [t \in Threads |-> "idle"]
    /\ local = [t \in Threads |-> [op |-> "none"]]
    /\ journal = <<>>
    /\ tables = initialize_rankings(<<>>, <<>>)
    /\ now = 1
    /\ lock = 0
    /\ logged = <<>>
    /\ NoRouter
    /\ NoExport

\* SearchLogger.log_search(username, query): the entry is stamped, appended
\* to the user's file, and then counted; a failed append returns with the
\* tables untouched, a blank normalized query is appended and not counted.
LogSearchCall(username, query, fault) ==
    LET log_entry == LogEntry(query, now)
        written == file_append(journal, safe_username(username),
                               json_dumps(log_entry), fault)
        query_key == Lower(Strip(log_entry.query))
    IN  /\ now' = now + 1
        /\ journal' = written.journal
        /\ tables' = IF written.ok /\ query_key # ""
                     THEN update_tables(tables, username, log_entry)
                     ELSE tables
        /\ logged' = IF written.ok
                     THEN Append(logged, [username |-> username, query |-> query,
                                          entry |-> log_entry])
                     ELSE logged
        /\ ret' = [op |-> "log_search", username |-> username, query |-> query,
                   ok |-> written.ok]
        /\ UNCHANGED lock

log_search ==
    \E username \in Usernames, query \in LogQueries, fault \in LogFaults :
        /\ now <= MaxLog
        /\ LogSearchCall(username, query, fault)
        /\ ServiceIdle

\* SearchLogger(log_dir) constructed again over the same directory.
SearchLogger_new ==
    \E user_files \in GlobOrders(journal) :
        /\ tables' = initialize_rankings(journal, user_files)
        /\ ret' = [op |-> "SearchLogger"]
        /\ UNCHANGED <<journal, now, lock, logged>>
        /\ ServiceIdle

NextJournal ==
    \/ log_search
    \/ SearchLogger_new

SpecJournal == InitJournal /\ [][NextJournal]_vars

----------------------------------------------------------------------------
(* SearchLogger: searches logged by two users, then the rankings read *)

RankedUsers == {"ab", "cd"}
RankedQueries == {"AI", " ai", "ML"}
RankingLimits == 0..3

log_search_ranked ==
    \E username \in RankedUsers, query \in RankedQueries :
        /\ now <= MaxRanked
        /\ LogSearchCall(username, query, "none")
        /\ ServiceIdle

\* SearchLogger.get_popular_queries(limit)
get_popular_queries ==
    \E limit \in RankingLimits :
        /\ ret' = [op |-> "get_popular_queries", limit |-> limit,
                   popular |-> popular_queries(tables, limit)]
        /\ UNCHANGED journalVars
        /\ ServiceIdle

NextRanking ==
    \/ log_search_ranked
    \/ get_popular_queries

SpecRanking == InitJournal /\ [][NextRanking]_vars

----------------------------------------------------------------------------
(* SearchLogger constructed over a journal directory that already holds
   files, some with lines that are not well-formed events. *)

OldLines ==
    { json_dumps([timestamp |-> 1, query |-> "AI"]),
      json_dumps([timestamp |-> 2, query |-> "ML"]),
      GarbageLine,
      NonObjectLine }

OldFiles == UNION {[1..n -> OldLines] : n \in 0..MaxOldLines}

OldJournals == UNION {[files -> OldFiles] : files \in SUBSET {"ab", "cd"}}

\* __init__ up to line 23: empty tables, the directory as it was found.
InitStartup ==
    /\ index = <<>>
    /\ cache = [entries |-> <<>>, hits |-> 0, misses |-> 0]
    /\ ret = [op |-> "init"]
    /\ recent = <<>>
    /\ searched = {}
    /\ pc = [t \in Threads |-> "idle"]
    /\ local = [t \in Threads |-> [op |-> "none"]]
    /\ journal \in OldJournals
    /\ tables = EmptyTables
    /\ now = 3
    /\ lock = 0
    /\ logged = <<>>
    /\ NoRouter
    /\ NoExport

\* __init__ line 26: _initialize_rankings()
SearchLogger_initialize_rankings ==
    \E user_files \in GlobOrders(journal) :
        /\ ret.op = "init"
        /\ tables' = initialize_rankings(journal, user_files)
        /\ ret' = [op |-> "SearchLogger"]
        /\ UNCHANGED <<journal, now, lock, logged>>
        /\ ServiceIdle

NextStartup == SearchLogger_initialize_rankings

SpecStartup == InitStartup /\ [][NextStartup]_vars

----------------------------------------------------------------------------
(* SearchLogger.log_search called from parallel threads.  A call stamps its
   entry, appends it to the user's file, takes _rankings_lock and updates the
   tables; the threads interleave between these steps, and the clock may
   advance between any two of them.  The readers hold the lock for their
   whole body. *)

ConcUsers == {"ab", "cd"}
ConcQueries == {"AI", " "}
ConcLimits == {1, 2}

\* The directory at startup: empty, or one file with one event.
ConcOldJournals ==
    { <<>>, [file \in {"ab"} |-> <<json_dumps([timestamp |-> 0, query |-> "AI"])>>] }

InitJournalConc ==
    /\ index = <<>>
    /\ cache = [entries |-> <<>>, hits |-> 0, misses |-> 0]
    /\ ret = [op |-> "SearchLogger"]
    /\ recent = <<>>
    /\ searched = {}
    /\ pc = [t \in Threads |-> "idle"]
    /\ local = [t \in Threads |-> [op |-> "none"]]
    /\ journal \in ConcOldJournals
    /\ \E user_files \in GlobOrders(journal) :
           tables = initialize_rankings(journal, user_files)
    /\ now = 1
    /\ lock = 0
    /\ logged = <<>>
    /\ NoRouter
    /\ NoExport

\* threading.RLock: free, or held by the thread itself.
rlock_free(l, t) == l = 0 \/ l = t

\* Time passes.
tick ==
    /\ now < MaxClock
    /\ now' = now + 1
    /\ UNCHANGED <<index, cache, ret, recent, searched, pc, local, journal, tables,
                   lock, logged, shards, writelock, csv_cache>>

\* log_search lines 122-141: normalize the query, stamp the entry.
log_begin(t) ==
    \E username \in ConcUsers, query \in ConcQueries :
        /\ pc[t] = "idle"
        /\ Len(logged) + Cardinality({u \in Threads : pc[u] # "idle"}) < MaxConcLog
        /\ pc' = [pc EXCEPT ![t] = "append"]
        /\ local' = [local EXCEPT ![t] = [op |-> "log_search", username |-> username,
                                          query |-> query,
                                          log_entry |-> LogEntry(query, now)]]
        /\ UNCHANGED <<index, cache, ret, recent, searched, journalVars, shards, writelock, csv_cache>>

\* log_search lines 143-151: append the line; a failed append and a blank
\* query key return here.
log_append(t) ==
    \E fault \in LogFaults :
        LET written == file_append(journal, safe_username(local[t].username),
                                   json_dumps(local[t].log_entry), fault)
            query_key == Lower(Strip(local[t].log_entry.query))
            returns == ~written.ok \/ query_key = ""
        IN  /\ pc[t] = "append"
            /\ journal' = written.journal
            /\ pc' = [pc EXCEPT ![t] = IF returns THEN "idle" ELSE "acquire"]
            /\ local' = [local EXCEPT ![t] = IF returns THEN [op |-> "none"] ELSE @]
            /\ ret' = IF returns
                      THEN [op |-> "log_search", username |-> local[t].username,
                            query |-> local[t].query, ok |-> written.ok]
                      ELSE ret
            /\ logged' = IF written.ok /\ query_key = ""
                         THEN Append(logged, [username |-> local[t].username,
                                              query |-> local[t].query,
                                              entry |-> local[t].log_entry])
                         ELSE logged
            /\ UNCHANGED <<index, cache, recent, searched, tables, now, lock, shards, writelock, csv_cache>>

\* log_search line 152: with self._rankings_lock
log_acquire(t) ==
    /\ pc[t] = "acquire"
    /\ rlock_free(lock, t)
    /\ lock' = t
    /\ pc' = [pc EXCEPT ![t] = "update"]
    /\ UNCHANGED <<index, cache, ret, recent, searched, local, journal, tables, now,
                   logged, shards, writelock, csv_cache>>

\* log_search lines 153-168: update the tables, release the lock, return.
log_update(t) ==
    /\ pc[t] = "update"
    /\ tables' = update_tables(tables, local[t].username, local[t].log_entry)
    /\ lock' = 0
    /\ logged' = Append(logged, [username |-> local[t].username,
                                 query |-> local[t].query,
                                 entry |-> local[t].log_entry])
    /\ ret' = [op |-> "log_search", username |-> local[t].username,
               query |-> local[t].query, ok |-> TRUE]
    /\ pc' = [pc EXCEPT ![t] = "idle"]
    /\ local' = [local EXCEPT ![t] = [op |-> "none"]]
    /\ UNCHANGED <<index, cache, recent, searched, journal, now, shards, writelock, csv_cache>>

\* SearchLogger.get_rankings_stats()
get_rankings_stats(t) ==
    /\ pc[t] = "idle"
    /\ rlock_free(lock, t)
    /\ ret' = [op |-> "get_rankings_stats", stats |-> rankings_stats(tables)]
    /\ UNCHANGED <<index, cache, recent, searched, pc, local, journalVars, shards, writelock, csv_cache>>

\* SearchLogger.get_user_searches(username, limit)
get_user_searches(t) ==
    \E username \in ConcUsers, limit \in ConcLimits :
        /\ pc[t] = "idle"
        /\ rlock_free(lock, t)
        /\ ret' = [op |-> "get_user_searches", username |-> username, limit |-> limit,
                   searches |-> user_searches(tables, username, limit)]
        /\ UNCHANGED <<index, cache, recent, searched, pc, local, journalVars, shards, writelock, csv_cache>>

NextJournalConc ==
    \/ tick
    \/ \E t \in Threads :
           \/ log_begin(t)
           \/ log_append(t)
           \/ log_acquire(t)
           \/ log_update(t)
           \/ get_rankings_stats(t)
           \/ get_user_searches(t)

SpecJournalConc == InitJournalConc /\ [][NextJournalConc]_vars

----------------------------------------------------------------------------
(* MultiIndexSearchService: one SearchService per configured prefecture, each
   on its own index directory.  _cached_search is decorated on the class, so
   the services share one lru_cache whose keys start with the service. *)

\* The keys of indexes_config.
Configured == {"tokyo", "osaka"}

RouterPrefectures == {"", "tokyo", "osaka", "kyoto"}
RouterQueries == {"ai", " "}

\* The records and batches written through the router.
RouterRecords == {rec \in Records : rec.id \in {"b", "c"}}
RouterBatches ==
    UNION {[1..n -> RouterRecords \cup {NoIdRecord}] : n \in 0..MaxShardDocs}

\* self.search_services[prefecture]: the service a call is handed to, named
\* by the prefecture it was constructed for.
routed_service_first(prefecture) == "tokyo"

routed_service(prefecture) == prefecture

\* The argument tuple the shared lru_cache keys on, self included.
ServiceKey(self, query, limit, prefecture, cust_status, sort_by) ==
    [self |-> self, query |-> query, limit |-> limit, prefecture |-> prefecture,
     cust_status |-> cust_status, sort_by |-> sort_by]

\* SearchService.search of the service `self` with index ix and cache c:
\* the envelope, the cache afterwards, and whether the lookup was a hit.
service_search(ix, c, self, query, limit, prefecture, cust_status, sort_by) ==
    LET key == ServiceKey(self, query, limit, prefecture, cust_status, sort_by)
    IN  IF Strip(query) = ""
        THEN [result |-> ZeroEnvelope(query), cache |-> c, hit |-> FALSE]
        ELSE IF key \in CachedKeys(c)
             THEN [result |-> Envelope(query, CachedValue(c, key).results,
                                       CachedValue(c, key).processed_query),
                   cache |-> lru_hit(c, key), hit |-> TRUE]
             ELSE LET r == cached_search(ix, key)
                      value == [results |-> r.results,
                                processed_query |-> r.processed_query]
                  IN  [result |-> Envelope(query, value.results, value.processed_query),
                       cache |-> lru_store(lru_miss(c), key, value), hit |-> FALSE]

\* The envelope of MultiIndexSearchService.search for a refused prefecture.
ErrorEnvelope(query, error) ==
    [grouped_results |-> <<>>, total_found |-> 0, total_companies |-> 0,
     query |-> query, processed_query |-> "", error |-> error]

\* results['prefecture'] = prefecture
WithPrefecture(result, prefecture) ==
    [grouped_results |-> result.grouped_results, total_found |-> result.total_found,
     total_companies |-> result.total_companies, query |-> result.query,
     processed_query |-> result.processed_query, prefecture |-> prefecture]

\* A router constructed over empty index directories.
InitRouter ==
    /\ index = <<>>
    /\ cache = [entries |-> <<>>, hits |-> 0, misses |-> 0]
    /\ ret = [op |-> "MultiIndexSearchService"]
    /\ recent = <<>>
    /\ searched = {}
    /\ pc = [t \in Threads |-> "idle"]
    /\ local = [t \in Threads |-> [op |-> "none"]]
    /\ NoJournal
    /\ NoExport
    /\ shards = [prefecture \in Configured |-> <<>>]

RouterIdle ==
    UNCHANGED <<index, recent, searched, pc, local, journalVars, writelock, csv_cache>>

\* MultiIndexSearchService.search(query, prefecture)
Router_search ==
    \E query \in RouterQueries, prefecture \in RouterPrefectures :
        /\ cache.hits + cache.misses < MaxCalls
        /\ IF prefecture = ""
           THEN /\ ret' = [op |-> "router.search", query |-> query,
                           prefecture |-> prefecture, called |-> {}, hit |-> FALSE,
                           result |-> ErrorEnvelope(query, "Prefecture selection is required")]
                /\ UNCHANGED cache
           ELSE IF prefecture \notin DOMAIN shards
                THEN /\ ret' = [op |-> "router.search", query |-> query,
                                prefecture |-> prefecture, called |-> {}, hit |-> FALSE,
                                result |-> ErrorEnvelope(query, "not available")]
                     /\ UNCHANGED cache
                ELSE LET service == routed_service(prefecture)
                         r == service_search(shards[service], cache, service, query,
                                             10, "", "", "")
                     IN  /\ ret' = [op |-> "router.search", query |-> query,
                                    prefecture |-> prefecture, called |-> {service},
                                    hit |-> r.hit,
                                    result |-> WithPrefecture(r.result, prefecture)]
                         /\ cache' = r.cache
        /\ UNCHANGED shards
        /\ RouterIdle

\* MultiIndexSearchService.add_document(prefecture, **kwargs): prefecture is
\* taken by the router, so the service stores the document with its default
\* prefecture "".
Router_add_document ==
    \E prefecture \in RouterPrefectures, rec \in RouterRecords, fault \in Faults :
        IF prefecture \notin DOMAIN shards
        THEN /\ ret' = [op |-> "router.add_document", prefecture |-> prefecture,
                        returned |-> "False"]
             /\ UNCHANGED <<shards, cache>>
             /\ RouterIdle
        ELSE LET service == routed_service(prefecture)
                 r == whoosh_add_document(shards[service],
                                          [rec EXCEPT !.prefecture = ""], fault)
             IN  /\ Len(shards[service]) < MaxShardDocs
                 /\ shards' = [shards EXCEPT ![service] = r.ix]
                 /\ cache' = cache_clear(cache)
                 /\ ret' = [op |-> "router.add_document", prefecture |-> prefecture,
                            returned |-> IF r.ok THEN "True" ELSE "False"]
                 /\ RouterIdle

\* MultiIndexSearchService.add_documents_batch(prefecture, documents)
Router_add_documents_batch ==
    \E prefecture \in RouterPrefectures, documents \in RouterBatches, fault \in Faults :
        IF prefecture \notin DOMAIN shards
        THEN /\ ret' = [op |-> "router.add_documents_batch", prefecture |-> prefecture,
                        returned |-> "False"]
             /\ UNCHANGED <<shards, cache>>
             /\ RouterIdle
        ELSE LET service == routed_service(prefecture)
                 r == whoosh_add_documents_batch(shards[service], documents, fault)
             IN  /\ Len(shards[service]) + Len(documents) <= MaxShardDocs
                 /\ shards' = [shards EXCEPT ![service] = r.ix]
                 /\ cache' = cache_clear(cache)
                 /\ ret' = [op |-> "router.add_documents_batch",
                            prefecture |-> prefecture,
                            returned |-> IF r.ok THEN "True" ELSE "False"]
                 /\ RouterIdle

\* MultiIndexSearchService.clear_index(prefecture)
Router_clear_index ==
    \E prefecture \in RouterPrefectures, fault \in {"none", "rmtree"} :
        IF prefecture \notin DOMAIN shards
        THEN /\ ret' = [op |-> "router.clear_index", prefecture |-> prefecture,
                        returned |-> "False"]
             /\ UNCHANGED <<shards, cache>>
             /\ RouterIdle
        ELSE LET service == routed_service(prefecture)
                 r == whoosh_clear_index(shards[service], fault)
             IN  /\ shards' = [shards EXCEPT ![service] = r.ix]
                 /\ cache' = cache_clear(cache)
                 /\ ret' = [op |-> "router.clear_index", prefecture |-> prefecture,
                            returned |-> IF r.ok THEN "True" ELSE "False"]
                 /\ RouterIdle

\* MultiIndexSearchService has no attribute delete_document: the call raises
\* AttributeError whatever the prefecture, and nothing is deleted.
Router_delete_document ==
    \E prefecture \in RouterPrefectures, doc_id \in Ids :
        /\ ret' = [op |-> "router.delete_document", prefecture |-> prefecture,
                   doc_id |-> doc_id, returned |-> "AttributeError"]
        /\ UNCHANGED <<shards, cache>>
        /\ RouterIdle

NextRouter ==
    \/ Router_search
    \/ Router_add_document
    \/ Router_add_documents_batch
    \/ Router_clear_index
    \/ Router_delete_document

SpecRouter == InitRouter /\ [][NextRouter]_vars

----------------------------------------------------------------------------
(* The export cache: api.download_csv.  A cache file is written as its BOM
   and its lines; md5 is taken as injective, so a digest is written as the
   string it was computed from. *)

MaxExportDocs == 2  \* documents held by the index while exports are served
MaxExports == 1     \* export searches between two cache_clear calls

\* search(query, limit=10000, ...)
ExportLimit == 10000

\* 'username' in session
ExportSessions == {TRUE, FALSE}
ExportQueries == {"ai", " ai", " "}
ExportPrefectures == {"", "tokyo"}
ExportCustStatuses == {""}
ExportRecords == {rec \in Records : rec.id = "b"}

\* What a generation can meet: nothing, os.makedirs raises, building a row
\* raises after the search, every open() of the cache file raises.
ExportFaults == {"none", "makedirs", "rows", "disk"}

md5(params) == params

\* get_cache_key
get_cache_key(query, prefecture, cust_status) ==
    md5(query \o ":" \o prefecture \o ":" \o cust_status)

\* os.path.exists(cache_file)
os_path_exists_never(files, cache_key) == FALSE

os_path_exists(files, cache_key) == cache_key \in DOMAIN files

\* send_file(cache_file): the bytes of the file.
send_file(files, cache_key) == files[cache_key]

\* open(cache_file, 'w', encoding='utf-8-sig'); f.write(content)
write_cache_file(files, cache_key, lines) ==
    [f \in DOMAIN files \cup {cache_key} |->
        IF f = cache_key THEN [bom |-> TRUE, lines |-> lines] ELSE files[f]]

\* writer.writeheader()
CsvHeader == "jcn,CUST_STATUS2,prefecture,matched_terms,id"

\* result_data of one url of one company
CsvRow(company, url) ==
    [jcn |-> company.jcn, CUST_STATUS2 |-> company.CUST_STATUS2,
     prefecture |-> company.prefecture, matched_terms |-> url.matched_terms,
     id |-> url.id]

\* for company in grouped_results: for url in company['urls']: writerow
RECURSIVE csv_rows(_)
csv_rows(grouped_results) ==
    IF grouped_results = <<>>
    THEN <<>>
    ELSE LET company == Head(grouped_results)
         IN  [u \in DOMAIN company.urls |-> CsvRow(company, company.urls[u])]
             \o csv_rows(Tail(grouped_results))

\* csv_content for a search result
csv_content(search_results) == <<CsvHeader>> \o csv_rows(search_results.grouped_results)

\* error_csv = f"Error,{str(e)}\n"
error_csv == <<"Error">>

\* get_search_service(): a SearchService constructed for this request; the
\* instances alive in the lru_cache are told apart by their order of
\* construction since the last cache_clear.
get_search_service(c) == c.misses + 1

\* generate_csv_content(): the files and the lru_cache afterwards, the number
\* of engine searches, and whether an exception left the function.
generate_csv_content(files, ix, c, query, prefecture, cust_status, fault) ==
    LET cache_key == get_cache_key(query, prefecture, cust_status)
        self == get_search_service(c)
        key == ServiceKey(self, query, ExportLimit, prefecture, cust_status, "jcn")
        r == service_search(ix, c, self, query, ExportLimit, prefecture,
                            cust_status, "jcn")
        engine_calls == IF r.hit THEN 0 ELSE cached_search(ix, key).engine_calls
    IN  CASE fault = "makedirs" ->
                 [files |-> write_cache_file(files, cache_key, error_csv),
                  cache |-> c, engine_calls |-> 0, raised |-> FALSE]
          [] fault = "rows" ->
                 [files |-> write_cache_file(files, cache_key, error_csv),
                  cache |-> r.cache, engine_calls |-> engine_calls, raised |-> FALSE]
          [] fault = "disk" ->
                 [files |-> files, cache |-> r.cache, engine_calls |-> engine_calls,
                  raised |-> TRUE]
          [] OTHER ->
                 [files |-> write_cache_file(files, cache_key, csv_content(r.result)),
                  cache |-> r.cache, engine_calls |-> engine_calls, raised |-> FALSE]

\* download_csv after generate_csv_content() returned g or raised (lines
\* 217-225): the file just written is served.
generated_response(cache_key, g) ==
    IF g.raised
    THEN [status |-> 500, cache_key |-> cache_key,
          from_cache |-> FALSE, body |-> <<>>, engine_calls |-> g.engine_calls,
          files |-> g.files, cache |-> g.cache]
    ELSE [status |-> 200, cache_key |-> cache_key,
          from_cache |-> FALSE, body |-> send_file(g.files, cache_key),
          engine_calls |-> g.engine_calls, files |-> g.files, cache |-> g.cache]

\* The response of download_csv (status and body; the body of a refusal is
\* left empty) and the state it leaves.
download_csv_response(files, ix, c, session, q, prefecture, cust_status, fault) ==
    LET query == Strip(q)
        cache_key == get_cache_key(query, prefecture, cust_status)
        refused(status) == [status |-> status, cache_key |-> cache_key,
                            from_cache |-> FALSE, body |-> <<>>, engine_calls |-> 0,
                            files |-> files, cache |-> c]
    IN  IF ~session
        THEN refused(401)
        ELSE IF query = ""
        THEN refused(400)
        ELSE IF os_path_exists(files, cache_key)
        THEN [status |-> 200, cache_key |-> cache_key,
              from_cache |-> TRUE, body |-> send_file(files, cache_key),
              engine_calls |-> 0, files |-> files, cache |-> c]
        ELSE generated_response(cache_key,
                                generate_csv_content(files, ix, c, query, prefecture,
                                                     cust_status, fault))

\* The web process over an empty index and an empty export cache directory.
InitExport ==
    /\ index = <<>>
    /\ cache = [entries |-> <<>>, hits |-> 0, misses |-> 0]
    /\ ret = [op |-> "api"]
    /\ recent = <<>>
    /\ searched = {}
    /\ pc = [t \in Threads |-> "idle"]
    /\ local = [t \in Threads |-> [op |-> "none"]]
    /\ NoJournal
    /\ NoRouter
    /\ NoExport

ExportIdle ==
    UNCHANGED <<recent, searched, pc, local, journalVars, shards, writelock>>

\* GET /api/download-csv, requests served one at a time.
download_csv ==
    \E session \in ExportSessions, q \in ExportQueries,
       prefecture \in ExportPrefectures, cust_status \in ExportCustStatuses,
       fault \in ExportFaults :
        \E r \in {download_csv_response(csv_cache, index, cache, session, q,
                                        prefecture, cust_status, fault)} :
            /\ r.cache # cache => cache.misses < MaxExports
            /\ ret' = [op |-> "download_csv", q |-> q, prefecture |-> prefecture,
                       cust_status |-> cust_status, cache_key |-> r.cache_key,
                       status |-> r.status, from_cache |-> r.from_cache,
                       body |-> r.body, engine_calls |-> r.engine_calls]
            /\ csv_cache' = r.files
            /\ cache' = r.cache
            /\ UNCHANGED index
            /\ ExportIdle

\* The index is written between two exports: SearchService.add_document,
\* delete_document or clear_index, each followed by cache_clear.
export_add_document ==
    \E rec \in ExportRecords :
        /\ Len(index) < MaxExportDocs
        /\ index' = whoosh_add_document(index, rec, "none").ix
        /\ cache' = cache_clear(cache)
        /\ ret' = [op |-> "add_document", doc_id |-> rec.id]
        /\ UNCHANGED csv_cache
        /\ ExportIdle

export_delete_document ==
    \E doc_id \in {rec.id : rec \in ExportRecords} :
        /\ index' = whoosh_delete_document(index, doc_id, "none").ix
        /\ cache' = cache_clear(cache)
        /\ ret' = [op |-> "delete_document", doc_id |-> doc_id]
        /\ UNCHANGED csv_cache
        /\ ExportIdle

export_clear_index ==
    /\ index' = whoosh_clear_index(index, "none").ix
    /\ cache' = cache_clear(cache)
    /\ ret' = [op |-> "clear_index"]
    /\ UNCHANGED csv_cache
    /\ ExportIdle

\* An operator deletes a cache file.
operator_deletes_file ==
    \E cache_key \in DOMAIN csv_cache :
        /\ csv_cache' = [f \in DOMAIN csv_cache \ {cache_key} |-> csv_cache[f]]
        /\ ret' = [op |-> "rm", cache_key |-> cache_key]
        /\ UNCHANGED <<index, cache>>
        /\ ExportIdle

NextExport ==
    \/ download_csv
    \/ export_add_document
    \/ export_delete_document
    \/ export_clear_index
    \/ operator_deletes_file

SpecExport == InitExport /\ [][NextExport]_vars

----------------------------------------------------------------------------
(* The tokenizer back-ends and their factory: tokenizers/factory.py,
   janome_tokenizer.py, mecab_tokenizer.py.  Parts of speech are written in
   ASCII: "meishi" = 名詞, "doushi" = 動詞. *)

MaxNodes == 2       \* nodes the morphological analyser yields for one text

\* What the analyser yields for a text: a surface and its comma-separated
\* features, split.  The node with the empty surface is MeCab's BOS/EOS.
NodePool ==
    { [surface |-> "", feature |-> <<"BOS/EOS", "*", "*", "*", "*", "*", "*">>],
      [surface |-> "ai", feature |-> <<"meishi", "ippan", "*", "*", "*", "*", "*">>],
      [surface |-> "hashitta",
       feature |-> <<"doushi", "jiritsu", "*", "*", "*", "*", "hashiru">>] }

NodeLists == UNION {[1..n -> NodePool] : n \in 0..MaxNodes}

\* get_tokenizer(tokenizer_type); "None" is the missing argument.
TokenizerTypes == {"None", "janome", "MeCab", "sudachi"}

\* `import MeCab` and MeCab.Tagger(): done, or the exception raised.
ImportOutcomes == {"ok", "ImportError"}
TaggerOutcomes == {"ok", "RuntimeError"}

\* MeCabTokenizer.__init__: the exception that leaves it, "ok" when none.
MeCabTokenizer_init(import_MeCab, Tagger) ==
    IF import_MeCab # "ok" THEN "ImportError"
    ELSE IF Tagger # "ok" THEN Tagger
    ELSE "ok"

\* get_tokenizer: the class of the instance returned, or the exception raised.
get_tokenizer(tokenizer_type, import_MeCab, Tagger) ==
    LET mecab == MeCabTokenizer_init(import_MeCab, Tagger)
    IN  IF tokenizer_type = "None"
        THEN IF mecab = "ok"
             THEN [raised |-> "none", returned |-> "MeCabTokenizer"]
             ELSE IF mecab = "ImportError"
                  THEN [raised |-> "none", returned |-> "JanomeTokenizer"]
                  ELSE [raised |-> mecab, returned |-> "none"]
        ELSE IF Lower(tokenizer_type) = "janome"
        THEN [raised |-> "none", returned |-> "JanomeTokenizer"]
        ELSE IF Lower(tokenizer_type) = "mecab"
        THEN IF mecab = "ok"
             THEN [raised |-> "none", returned |-> "MeCabTokenizer"]
             ELSE [raised |-> mecab, returned |-> "none"]
        ELSE [raised |-> "ValueError", returned |-> "none"]

\* Token(surface, pos, base_form) of MeCabTokenizer.tokenize
MeCabToken(node) ==
    [surface |-> node.surface,
     pos |-> IF Len(node.feature) > 0 THEN node.feature[1] ELSE "michigo",
     base_form |-> IF Len(node.feature) > 6 /\ node.feature[7] # "*"
                   THEN node.feature[7] ELSE node.surface]

\* Token(surface, pos, base_form) of JanomeTokenizer.tokenize: Janome's
\* part_of_speech holds the first four features.
JanomeToken(node) ==
    LET pos_parts == SubSeq(node.feature, 1, 4)
    IN  [surface |-> node.surface,
         pos |-> IF Len(pos_parts) > 0 THEN pos_parts[1] ELSE "michigo",
         base_form |-> IF Len(pos_parts) > 6 /\ pos_parts[7] # "*"
                       THEN pos_parts[7] ELSE node.surface]

\* The loop of tokenize inside its try block: nodes are taken one by one, the
\* error_at-th one raises (0: none does); the except clause prints and the
\* function returns the list built so far.
RECURSIVE tokenize_loop(_, _, _, _, _)
tokenize_loop(backend, tokens, nodes, k, error_at) ==
    IF nodes = <<>> \/ k = error_at
    THEN tokens
    ELSE LET node == Head(nodes)
             appended == IF backend = "JanomeTokenizer"
                         THEN Append(tokens, JanomeToken(node))
                         ELSE IF node.surface # ""
                              THEN Append(tokens, MeCabToken(node))
                              ELSE tokens
         IN  tokenize_loop(backend, appended, Tail(nodes), k + 1, error_at)

\* JanomeTokenizer.tokenize / MeCabTokenizer.tokenize
tokenize(backend, nodes, error_at) ==
    [raised |-> "none", tokens |-> tokenize_loop(backend, <<>>, nodes, 1, error_at)]

\* A text to tokenize: the nodes the analyser yields for it and the node at
\* which the analyser fails.
InitTokenizer ==
    /\ index = <<>>
    /\ cache = [entries |-> <<>>, hits |-> 0, misses |-> 0]
    /\ \E nodes \in NodeLists, error_at \in 0..MaxNodes :
           /\ error_at <= Len(nodes)
           /\ ret = [op |-> "text", nodes |-> nodes, error_at |-> error_at]
    /\ recent = <<>>
    /\ searched = {}
    /\ pc = [t \in Threads |-> "idle"]
    /\ local = [t \in Threads |-> [op |-> "none"]]
    /\ NoJournal
    /\ NoRouter
    /\ NoExport

TokenizerIdle ==
    UNCHANGED <<index, cache, recent, searched, pc, local, journalVars, shards,
                writelock, csv_cache>>

\* QueryProcessor.__init__: self.tokenizer = get_tokenizer(tokenizer_type)
QueryProcessor_get_tokenizer ==
    \E tokenizer_type \in TokenizerTypes, import_MeCab \in ImportOutcomes,
       Tagger \in TaggerOutcomes :
        LET r == get_tokenizer(tokenizer_type, import_MeCab, Tagger)
        IN  /\ ret.op = "text"
            /\ ret' = [op |-> "get_tokenizer", nodes |-> ret.nodes,
                       error_at |-> ret.error_at, tokenizer_type |-> tokenizer_type,
                       MeCabTokenizer |-> MeCabTokenizer_init(import_MeCab, Tagger),
                       raised |-> r.raised, returned |-> r.returned]
            /\ TokenizerIdle

\* self.tokenizer.tokenize(text)
Tokenizer_tokenize ==
    /\ ret.op = "get_tokenizer"
    /\ ret.raised = "none"
    /\ LET r == tokenize(ret.returned, ret.nodes, ret.error_at)
       IN  ret' = [op |-> "tokenize", backend |-> ret.returned, nodes |-> ret.nodes,
                   error_at |-> ret.error_at, raised |-> r.raised, tokens |-> r.tokens]
    /\ TokenizerIdle

NextTokenizer ==
    \/ QueryProcessor_get_tokenizer
    \/ Tokenizer_tokenize

SpecTokenizer == InitTokenizer /\ [][NextTokenizer]_vars

----------------------------------------------------------------------------
(* SearchService._cached_search over an engine whose search can fail:
   WhooshSimpleJapanese.search catches every exception of its try block and
   returns []. *)

MaxFaultDocs == 2   \* documents held by the index of the failing engine
MaxFaultCalls == 2  \* cache lookups between two cache_clear calls

\* What the try block of WhooshSimpleJapanese.search can meet: nothing, or an
\* exception of ix.searcher() / searcher.search.
SearchFaults == {"none", "searcher"}

\* The third query is the quoted phrase "ai ml".
FaultKeys ==
    { Key("ai", 10, "", "", ""),
      Key("ai ml", 1, "Tokyo", "", "jcn"),
      Key("\"ai ml\"", 10, "", "", ""),
      Key("no", 10, "", "", "") }

FaultRecords == {rec \in Records : rec.id \in {"a", "b"}}

\* WhooshSimpleJapanese.search, lines 214-318
whoosh_search_or_empty(ix, query_string, limit, prefecture, cust_status, sort_by, fault) ==
    IF Strip(query_string) = ""
    THEN <<>>
    ELSE IF fault # "none"
         THEN <<>>
         ELSE whoosh_search(ix, query_string, limit, prefecture, cust_status, sort_by)

\* The body of _cached_search: the value it returns, the number of calls of
\* search_engine.search and the query string handed to it.
cached_search_body(ix, key, fault) ==
    LET processed_query == process_advanced_query(key.query)
    IN  IF processed_query = ""
        THEN [results |-> <<>>, processed_query |-> processed_query,
              engine_calls |-> 0, engine_query |-> <<>>]
        ELSE [results |-> whoosh_search_or_empty(ix, key.query, key.limit,
                                                 key.prefecture, key.cust_status,
                                                 key.sort_by, fault),
              processed_query |-> processed_query,
              engine_calls |-> 1, engine_query |-> <<key.query>>]

FaultIdle ==
    UNCHANGED <<recent, searched, pc, local, journalVars, shards, writelock, csv_cache>>

\* SearchService.search(query, limit, prefecture, cust_status, sort_by)
search_or_empty ==
    \E key \in FaultKeys, fault \in SearchFaults :
        /\ cache.hits + cache.misses < MaxFaultCalls
        /\ IF key \in CachedKeys(cache)
           THEN LET value == CachedValue(cache, key)
                IN  /\ cache' = lru_hit(cache, key)
                    /\ ret' = [op |-> "search", key |-> key, hit |-> TRUE,
                               fault |-> "none", engine_calls |-> 0,
                               engine_query |-> <<>>, cached |-> value,
                               result |-> Envelope(key.query, value.results,
                                                   value.processed_query)]
           ELSE LET r == cached_search_body(index, key, fault)
                    value == [results |-> r.results,
                              processed_query |-> r.processed_query]
                IN  /\ cache' = lru_store(lru_miss(cache), key, value)
                    /\ ret' = [op |-> "search", key |-> key, hit |-> FALSE,
                               fault |-> IF r.engine_calls = 0 THEN "none" ELSE fault,
                               engine_calls |-> r.engine_calls,
                               engine_query |-> r.engine_query, cached |-> value,
                               result |-> Envelope(key.query, value.results,
                                                   value.processed_query)]
        /\ UNCHANGED index
        /\ FaultIdle

\* SearchService.add_document
fault_add_document ==
    \E rec \in FaultRecords :
        /\ Len(index) < MaxFaultDocs
        /\ index' = whoosh_add_document(index, rec, "none").ix
        /\ cache' = cache_clear(cache)
        /\ ret' = [op |-> "add_document", doc_id |-> rec.id]
        /\ FaultIdle

\* SearchService.delete_document
fault_delete_document ==
    \E doc_id \in {rec.id : rec \in FaultRecords} :
        /\ index' = whoosh_delete_document(index, doc_id, "none").ix
        /\ cache' = cache_clear(cache)
        /\ ret' = [op |-> "delete_document", doc_id |-> doc_id]
        /\ FaultIdle

NextFault ==
    \/ search_or_empty
    \/ fault_add_document
    \/ fault_delete_document

SpecFault == Init /\ [][NextFault]_vars

----------------------------------------------------------------------------
(* The index writer and the write lock of the index directory, two threads
   (SpecWriter).  ix.writer() takes the lock of the directory or raises
   LockError at once when it is held; writer.commit() and writer.cancel()
   give it back, commit also when it raises.  clear_index removes and
   re-creates the directory without asking for the writer. *)

MaxWriterDocs == 2   \* documents held by the index the writers share

\* What a call meets once it holds the writer: nothing, a raising
\* writer.add_document / writer.delete_by_term, a raising writer.commit().
WriterFaults == {"none", "record", "commit"}

\* What clear_index meets: nothing, a raising shutil.rmtree.
ClearFaults == {"none", "rmtree"}

WriterRecords == {rec \in Records : rec.id \in {"a", "b"}}
WriterBatches == {<<rec>> : rec \in {r \in Records : r.id = "b"}}
                     \cup {<<rec, NoIdRecord>> : rec \in {r \in Records : r.id = "b"}}
WriterIds == {"a", "c"}

\* The write calls of WhooshSimpleJapanese with their arguments.
WriterCalls ==
    {[op |-> "add_document", rec |-> rec] : rec \in WriterRecords}
        \cup {[op |-> "add_documents_batch", documents |-> documents] :
                  documents \in WriterBatches}
        \cup {[op |-> "delete_document", doc_id |-> doc_id] : doc_id \in WriterIds}

\* The documents a call may add.
CallSize(call) ==
    CASE call.op = "add_document" -> 1
      [] call.op = "add_documents_batch" -> Len(call.documents)
      [] OTHER -> 0

\* A thread is between shutil.rmtree and index.create_in.
Erasing == \E t \in Threads : pc[t] = "clearing"

\* self.ix.writer(): raises when the lock is held or the directory is gone.
ix_writer(holder, erasing, t) ==
    IF holder # 0 \/ erasing
    THEN [raised |-> TRUE, holder |-> holder]
    ELSE [raised |-> FALSE, holder |-> t]

\* add_document from writer.add_document on: commit, or cancel in the handler.
add_document_body(ix, rec, fault) ==
    LET writer == IF fault = "record"
                  THEN NewWriter
                  ELSE writer_add_document(NewWriter, StoredDoc(rec))
    IN  IF fault = "none"
        THEN [ok |-> TRUE, ix |-> writer_commit(ix, writer), closed |-> TRUE]
        ELSE [ok |-> FALSE, ix |-> writer_cancel(ix, writer), closed |-> TRUE]

\* add_documents_batch from the for loop on: commit, or cancel in the handler.
add_documents_batch_body(ix, documents, fault) ==
    LET r == batch_loop(NewWriter, documents)
    IN  IF r.raised \/ fault # "none"
        THEN [ok |-> FALSE, ix |-> writer_cancel(ix, r.writer), closed |-> TRUE]
        ELSE [ok |-> TRUE, ix |-> writer_commit(ix, r.writer), closed |-> TRUE]

\* delete_document from writer.delete_by_term on: the handler only prints
\* and returns False, the writer is neither committed nor cancelled when
\* delete_by_term raises.
delete_document_body(ix, doc_id, fault) ==
    CASE fault = "record" -> [ok |-> FALSE, ix |-> ix, closed |-> FALSE]
      [] fault = "commit" -> [ok |-> FALSE, ix |-> ix, closed |-> TRUE]
      [] OTHER -> [ok |-> Len(ix) - Len(delete_by_term(ix, doc_id)) > 0,
                   ix |-> delete_by_term(ix, doc_id), closed |-> TRUE]

\* The rest of a write call that holds the writer.
write_body(ix, call, fault) ==
    CASE call.op = "add_document" -> add_document_body(ix, call.rec, fault)
      [] call.op = "add_documents_batch" ->
             add_documents_batch_body(ix, call.documents, fault)
      [] OTHER -> delete_document_body(ix, call.doc_id, fault)

\* The lock after a call that held it returned: free (0) when its writer was
\* committed or cancelled, else held (-1) by a writer nobody can give back.
lock_after(closed) == IF closed THEN 0 ELSE -1

\* The lock is held by the writer of a call that has returned.
Leaked(holder) == holder < 0

WriterIdle == UNCHANGED <<cache, recent, searched, journalVars, shards, csv_cache>>

\* A write call up to self.ix.writer(): with the lock it goes on, without it
\* the handler returns False (writer.cancel() of the handler raises NameError,
\* which is swallowed).
write_begin(t) ==
    \E call \in WriterCalls :
        LET w == ix_writer(writelock, Erasing, t)
        IN  /\ pc[t] = "idle"
            /\ Len(index) + CallSize(call) <= MaxWriterDocs
            /\ IF w.raised
               THEN /\ ret' = [op |-> call.op, call |-> call, thread |-> t,
                               ok |-> FALSE, acquired |-> FALSE, closed |-> FALSE,
                               fault |-> "LockError"]
                    /\ UNCHANGED <<pc, local, writelock>>
               ELSE /\ writelock' = w.holder
                    /\ pc' = [pc EXCEPT ![t] = "writing"]
                    /\ local' = [local EXCEPT ![t] = call]
                    /\ UNCHANGED ret
            /\ UNCHANGED index
            /\ WriterIdle

\* The rest of the call.  A writer whose directory was removed under it
\* (the lock is no longer its own) fails at commit or, with every file it
\* needs still open, lands its segment in the new directory.
write_finish(t) ==
    \E fault \in WriterFaults, lands \in BOOLEAN :
        LET r == write_body(index, local[t], fault)
            own == writelock = t
            ok == r.ok /\ (own \/ (lands /\ ~Erasing))
        IN  /\ pc[t] = "writing"
            /\ own => lands
            /\ index' = IF ok THEN r.ix ELSE index
            /\ writelock' = IF own THEN lock_after(r.closed) ELSE writelock
            /\ ret' = [op |-> local[t].op, call |-> local[t], thread |-> t,
                       ok |-> ok, acquired |-> TRUE, closed |-> r.closed,
                       fault |-> fault]
            /\ pc' = [pc EXCEPT ![t] = "idle"]
            /\ local' = [local EXCEPT ![t] = [op |-> "none"]]
            /\ WriterIdle

\* clear_index, shutil.rmtree (lines 324-325): the directory goes with
\* every file in it, the lock file too, whoever holds the writer.
clear_rmtree(t) ==
    \E fault \in ClearFaults :
        /\ pc[t] = "idle"
        /\ ~Erasing
        /\ IF fault = "rmtree"
           THEN /\ ret' = [op |-> "clear_index", thread |-> t, ok |-> FALSE,
                           writer_held_by |-> writelock]
                /\ UNCHANGED <<index, writelock, pc, local>>
           ELSE /\ index' = whoosh_clear_index(index, "none").ix
                /\ writelock' = 0
                /\ pc' = [pc EXCEPT ![t] = "clearing"]
                /\ local' = [local EXCEPT ![t] = [op |-> "clear_index",
                                                  writer_held_by |-> writelock]]
                /\ UNCHANGED ret
        /\ WriterIdle

\* clear_index, os.makedirs and index.create_in (lines 326-328).
clear_create(t) ==
    /\ pc[t] = "clearing"
    /\ ret' = [op |-> "clear_index", thread |-> t, ok |-> TRUE,
               writer_held_by |-> local[t].writer_held_by]
    /\ pc' = [pc EXCEPT ![t] = "idle"]
    /\ local' = [local EXCEPT ![t] = [op |-> "none"]]
    /\ UNCHANGED <<index, writelock>>
    /\ WriterIdle

NextWriter ==
    \E t \in Threads :
        \/ write_begin(t)
        \/ write_finish(t)
        \/ clear_rmtree(t)
        \/ clear_create(t)

SpecWriter == Init /\ [][NextWriter]_vars

----------------------------------------------------------------------------
(* The router with the statistics of its services read in between
   (SpecRouterStats).  cache_info() is that of the one lru_cache the class
   SearchService decorates _cached_search with. *)

\* SearchService.get_stats() of the service on index ix.
service_get_stats(ix, c) ==
    [total_documents |-> get_document_count(ix), engine_type |-> "Whoosh",
     cache_hits |-> c.hits, cache_misses |-> c.misses,
     cache_size |-> Len(c.entries), cache_max_size |-> maxsize]

\* MultiIndexSearchService.get_stats(prefecture)
Router_get_stats ==
    \E prefecture \in RouterPrefectures \ {""} :
        /\ ret' = IF prefecture \in DOMAIN shards
                  THEN [op |-> "router.get_stats", prefecture |-> prefecture,
                        stats |-> service_get_stats(shards[routed_service(prefecture)],
                                                    cache)]
                  ELSE [op |-> "router.get_stats", prefecture |-> prefecture,
                        error |-> "not available"]
        /\ UNCHANGED <<shards, cache>>
        /\ RouterIdle

NextRouterStats ==
    \/ NextRouter
    \/ Router_get_stats

SpecRouterStats == InitRouter /\ [][NextRouterStats]_vars

----------------------------------------------------------------------------
(* api.download_csv, two requests at a time (SpecExportConc).  A request
   goes from the test of os.path.exists to the search, to open(cache_file,
   'w'), which creates the file or empties it, to the write of the content,
   and to send_file, which reads the file as it is then. *)

MaxConcExports == 2   \* export searches between two cache_clear calls

ConcExportQueries == {"ai"}

\* What a generation can meet: nothing, building a row raises after the search.
ConcExportFaults == {"none", "rows"}

\* open(cache_file, 'w', encoding='utf-8-sig'): the file is there and empty.
open_cache_file(files, cache_key) ==
    [f \in DOMAIN files \cup {cache_key} |->
        IF f = cache_key THEN [bom |-> FALSE, lines |-> <<>>] ELSE files[f]]

\* f.write(content) and the close of the with block, from the start of the
\* file: what another request wrote beyond the end of content stays.
overwrite_cache_file(files, cache_key, lines) ==
    LET old == files[cache_key].lines
    IN  write_cache_file(files, cache_key,
                         lines \o SubSeq(old, Len(lines) + 1, Len(old)))

ExportConcIdle == UNCHANGED <<recent, searched, journalVars, shards, writelock>>

\* download_csv up to the test of the cache file (lines 119-146).
export_lookup(t) ==
    \E q \in ConcExportQueries, prefecture \in ExportPrefectures,
       cust_status \in ExportCustStatuses :
        LET query == Strip(q)
            cache_key == get_cache_key(query, prefecture, cust_status)
        IN  /\ pc[t] = "idle"
            /\ IF os_path_exists(csv_cache, cache_key)
               THEN /\ ret' = [op |-> "download_csv", thread |-> t,
                               cache_key |-> cache_key, status |-> 200,
                               from_cache |-> TRUE,
                               body |-> send_file(csv_cache, cache_key)]
                    /\ UNCHANGED <<pc, local>>
               ELSE /\ pc' = [pc EXCEPT ![t] = "generate"]
                    /\ local' = [local EXCEPT ![t] =
                                    [op |-> "download_csv", query |-> query,
                                     prefecture |-> prefecture,
                                     cust_status |-> cust_status,
                                     cache_key |-> cache_key]]
                    /\ UNCHANGED ret
            /\ UNCHANGED <<index, cache, csv_cache>>
            /\ ExportConcIdle

\* generate_csv_content up to the content (lines 151-202), or up to the
\* error record of the handler (lines 211-212).
export_generate(t) ==
    \E fault \in ConcExportFaults :
        LET self == get_search_service(cache)
            r == service_search(index, cache, self, local[t].query, ExportLimit,
                                local[t].prefecture, local[t].cust_status, "jcn")
            content == IF fault = "rows" THEN error_csv ELSE csv_content(r.result)
        IN  /\ pc[t] = "generate"
            /\ cache.misses < MaxConcExports
            /\ cache' = r.cache
            /\ pc' = [pc EXCEPT ![t] = "open"]
            /\ local' = [local EXCEPT ![t] =
                            [op |-> "download_csv", cache_key |-> local[t].cache_key,
                             content |-> content]]
            /\ UNCHANGED <<index, ret, csv_cache>>
            /\ ExportConcIdle

\* with open(cache_file, 'w', ...) (lines 205 and 213)
export_open(t) ==
    /\ pc[t] = "open"
    /\ csv_cache' = open_cache_file(csv_cache, local[t].cache_key)
    /\ pc' = [pc EXCEPT ![t] = "write"]
    /\ UNCHANGED <<index, cache, ret, local>>
    /\ ExportConcIdle

\* f.write(...) and the end of the with block (lines 206 and 214)
export_write(t) ==
    /\ pc[t] = "write"
    /\ csv_cache' = overwrite_cache_file(csv_cache, local[t].cache_key,
                                         local[t].content)
    /\ pc' = [pc EXCEPT ![t] = "serve"]
    /\ UNCHANGED <<index, cache, ret, local>>
    /\ ExportConcIdle

\* send_file(cache_file) of the request that generated (line 225)
export_serve(t) ==
    /\ pc[t] = "serve"
    /\ ret' = [op |-> "download_csv", thread |-> t,
               cache_key |-> local[t].cache_key, status |-> 200,
               from_cache |-> FALSE,
               body |-> send_file(csv_cache, local[t].cache_key)]
    /\ pc' = [pc EXCEPT ![t] = "idle"]
    /\ local' = [local EXCEPT ![t] = [op |-> "none"]]
    /\ UNCHANGED <<index, cache, csv_cache>>
    /\ ExportConcIdle

NextExportConc ==
    \/ export_add_document
    \/ \E t \in Threads :
           \/ export_lookup(t)
           \/ export_generate(t)
           \/ export_open(t)
           \/ export_write(t)
           \/ export_serve(t)

SpecExportConc == InitExport /\ [][NextExportConc]_vars

----------------------------------------------------------------------------
(* SearchLogger with a user whose name ends in ".jsonl" (SpecJournalNames):
   the users "a" and "a.jsonl" write the files a.jsonl and a.jsonl.jsonl,
   and a new SearchLogger reads both back. *)

MaxNamedLog == 3    \* log_search calls on the directory, restarts in between

DottedUsernames == {"a", "a.jsonl"}
NamedQueries == {"AI", "ML", " "}

log_search_named ==
    \E username \in DottedUsernames, query \in NamedQueries, fault \in LogFaults :
        /\ now <= MaxNamedLog
        /\ LogSearchCall(username, query, fault)
        /\ ServiceIdle

NextJournalNames ==
    \/ log_search_named
    \/ SearchLogger_new

SpecJournalNames == InitJournal /\ [][NextJournalNames]_vars

----------------------------------------------------------------------------
(* Properties of the index engine, checked under SpecEngine *)

Min(a, b) == IF a < b THEN a ELSE b

\* The documents a search call has to choose from: those matching the query
\* and passing the filters of the call.
MatchingDocs(ix, key) ==
    {i \in DOMAIN ix : /\ Matches(ix[i], key.query)
                       /\ PassesFilter(ix[i], key.prefecture, key.cust_status)}

(* C3: after any sequence of add_document and add_documents_batch calls, at
   most one indexed document carries any given id. *)
C3_OneDocumentPerId ==
    \A i, j \in DOMAIN index : index[i].id = index[j].id => i = j

\* The values of a pipe-separated cust_status list.
PipeValues(cust_status) ==
    IF cust_status = "shiroji|kako" THEN {"shiroji", "kako"} ELSE {cust_status}

(* C4: with cust_status given as a pipe-separated list v1|...|vn, the hits
   are exactly the matching documents (up to limit) whose CUST_STATUS2 is
   one of v1..vn. *)
C4_PipeListIsOr ==
    (ret.op = "whoosh.search" /\ ret.key.cust_status # "") =>
        LET expected == {i \in DOMAIN index :
                            /\ Matches(index[i], ret.key.query)
                            /\ PassesFilter(index[i], ret.key.prefecture, "")
                            /\ index[i].CUST_STATUS2 \in PipeValues(ret.key.cust_status)}
        IN  /\ Len(ret.hits) = Min(ret.key.limit, Cardinality(expected))
            /\ \A k \in DOMAIN ret.hits :
                   ret.hits[k].CUST_STATUS2 \in PipeValues(ret.key.cust_status)

(* C5: add_documents_batch is all-or-nothing.  A batch holding a record
   without id, or meeting a writer or commit failure, returns False; a call
   that returns False leaves the index as it was; a call that returns True
   has appended every record of the batch. *)
C5_BatchAllOrNothing ==
    [][ret'.op = "whoosh.add_documents_batch" =>
          /\ ((\E k \in DOMAIN ret'.documents : "id" \notin DOMAIN ret'.documents[k])
                 \/ ret'.fault # "none") => ~ret'.ok
          /\ ~ret'.ok => index' = index
          /\ ret'.ok =>
                /\ Len(index') = Len(index) + Len(ret'.documents)
                /\ SubSeq(index', 1, Len(index)) = index
                /\ \A k \in DOMAIN ret'.documents :
                       /\ index'[Len(index) + k].id = ret'.documents[k].id
                       /\ index'[Len(index) + k].jcn = ret'.documents[k].jcn
                       /\ index'[Len(index) + k].content_tokens
                              = ret'.documents[k].content_tokens
       ]_vars

\* A batch failed at its second record, after its first was given to the writer.
C5_Witness ==
    /\ ret.op = "whoosh.add_documents_batch"
    /\ ~ret.ok
    /\ ret.fault = "none"
    /\ Len(ret.documents) = 2
    /\ "id" \in DOMAIN ret.documents[1]
    /\ "id" \notin DOMAIN ret.documents[2]
    /\ index # <<>>

(* C8: every hit of a search called with a non-empty prefecture P has stored
   prefecture equal to P lowercased. *)
C8_PrefectureFilter ==
    (ret.op = "whoosh.search" /\ ret.key.prefecture # "") =>
        \A k \in DOMAIN ret.hits : ret.hits[k].prefecture = Lower(ret.key.prefecture)

\* A search for "Tokyo" returned the document ingested as "Tokyo"; one for
\* "osaka" returned a document ingested as "OSAKA".
C8_Witness ==
    /\ ret.op = "whoosh.search"
    /\ \/ ret.key.prefecture = "Tokyo" /\ \E k \in DOMAIN ret.hits : ret.hits[k].jcn = 3
       \/ ret.key.prefecture = "osaka" /\ \E k \in DOMAIN ret.hits : ret.hits[k].id = "c"

(* C9: with sort_by = "jcn" the jcn values of the hits are non-decreasing and
   the hits are the first `limit` matching documents in jcn order: for every
   jcn value v, the hits with jcn <= v are as many as the matching documents
   with jcn <= v, up to limit. *)
C9_SortByJcn ==
    (ret.op = "whoosh.search" /\ ret.key.sort_by = "jcn") =>
        LET matching == MatchingDocs(index, ret.key)
        IN  /\ \A k \in 1..(Len(ret.hits) - 1) : ret.hits[k].jcn <= ret.hits[k+1].jcn
            /\ Len(ret.hits) = Min(ret.key.limit, Cardinality(matching))
            /\ \A v \in 1..3 :
                   Cardinality({k \in DOMAIN ret.hits : ret.hits[k].jcn <= v})
                     = Min(ret.key.limit,
                           Cardinality({i \in matching : index[i].jcn <= v}))

\* limit = 1 cut a sorted result: the hit is not the best-scored match.
C9_Witness ==
    /\ ret.op = "whoosh.search"
    /\ ret.key.sort_by = "jcn"
    /\ ret.key.limit = 1
    /\ Len(ret.hits) = 1
    /\ \E i \in MatchingDocs(index, ret.key) :
           /\ Score(index[i], ret.key.query) > ret.hits[1].score
           /\ index[i].jcn > ret.hits[1].jcn

----------------------------------------------------------------------------
(* Properties of SearchService called one call at a time, checked under Spec *)

WriteOps == {"add_document", "add_documents_batch", "delete_document", "clear_index"}

(* C1: when add_document, add_documents_batch, delete_document or
   clear_index returns, the cache holds zero entries, whatever it held
   before the call and whatever the call returns. *)
C1_WritesPurgeCache ==
    ret.op \in WriteOps => cache_size = 0

\* A batch add returned and dropped two cached results.
C1_Witness ==
    /\ ret.op = "add_documents_batch"
    /\ ret.size_before >= 2
    /\ cache_size = 0

\* The ids of the hits of a response envelope.
EnvelopeIds(result) ==
    UNION { {result.grouped_results[g].urls[u].id :
                u \in DOMAIN result.grouped_results[g].urls} :
            g \in DOMAIN result.grouped_results }

\* The ids a returned add call has indexed.
AddedIds(r) ==
    IF r.op = "add_document" /\ r.ok THEN {r.doc_id}
    ELSE IF r.op = "add_documents_batch" /\ r.ok
         THEN {r.documents[k].id : k \in DOMAIN r.documents}
         ELSE {}

(* C6: a delete_document(id) that commits leaves no indexed document with
   that id, an id enters the index only through an add call for that id, and
   every hit a search returns is an indexed document: so no search returns
   the id until it is added again.  delete_document of an id that is not
   indexed returns False and leaves the index unchanged. *)
C6_DeleteRemoves ==
    [][/\ (ret'.op = "delete_document" /\ ret'.fault = "none") =>
              /\ ret'.doc_id \notin IndexedIds(index')
              /\ ret'.ok = (ret'.doc_id \in IndexedIds(index))
       /\ (ret'.op = "delete_document" /\ ret'.doc_id \notin IndexedIds(index)) =>
              /\ ~ret'.ok
              /\ index' = index
       /\ IndexedIds(index') \ IndexedIds(index) \subseteq AddedIds(ret')
       /\ ret'.op = "search" => EnvelopeIds(ret'.result) \subseteq IndexedIds(index')
      ]_vars

\* delete_document removed both documents that carried the id; the index
\* still holds another document.
C6_Witness ==
    /\ ret.op = "delete_document"
    /\ ret.ok
    /\ ret.deleted_count = 2
    /\ index # <<>>

\* The queries SearchService.search answers without a lookup.
BlankQueries == {"", " "}

(* C12: search with an empty or whitespace-only query returns the
   zero-result envelope (no groups, total_found = 0, total_companies = 0,
   empty processed_query), calls no engine, and leaves cache_hits,
   cache_misses and cache_size as they were. *)
C12_BlankQueryTouchesNothing ==
    [][(ret'.op = "search" /\ ret'.key.query \in BlankQueries) =>
          /\ ret'.result.grouped_results = <<>>
          /\ ret'.result.total_found = 0
          /\ ret'.result.total_companies = 0
          /\ ret'.result.processed_query = ""
          /\ ret'.engine_calls = 0
          /\ cache'.hits = cache.hits
          /\ cache'.misses = cache.misses
          /\ Len(cache'.entries) = Len(cache.entries)
      ]_vars

\* A blank search returned while the cache held a result and had counted a miss.
C12_Witness ==
    /\ ret.op = "search"
    /\ ret.key.query \in BlankQueries
    /\ index # <<>>
    /\ cache_size = 1
    /\ cache_misses = 1

----------------------------------------------------------------------------
(* Properties of _group_by_company, checked under SpecGroup *)

RECURSIVE SumUrls(_)
SumUrls(groups) ==
    IF groups = <<>> THEN 0 ELSE Len(Head(groups).urls) + SumUrls(Tail(groups))

\* The hits of a list that carry a jcn, in list order.
HitsOf(results, jcn) == SelectSeq(results, LAMBDA h : h.jcn = jcn)

(* C7: the groups are in ascending jcn order, one per distinct jcn of the
   hits; the urls of a group are the hits of that jcn in hit order; the
   company fields of a group are those of the first hit with that jcn;
   total_found is the sum of the url counts and total_companies the number
   of groups. *)
C7_GroupByCompany ==
    ret.op = "envelope" =>
        LET groups == ret.result.grouped_results
            results == ret.results
        IN  /\ \A g \in 1..(Len(groups) - 1) : groups[g].jcn < groups[g+1].jcn
            /\ {groups[g].jcn : g \in DOMAIN groups}
                 = {results[i].jcn : i \in DOMAIN results}
            /\ \A g \in DOMAIN groups :
                   LET of == HitsOf(results, groups[g].jcn)
                   IN  /\ Len(groups[g].urls) = Len(of)
                       /\ \A u \in DOMAIN of :
                              /\ groups[g].urls[u].id = of[u].id
                              /\ groups[g].urls[u].score = of[u].score
                       /\ groups[g].CUST_STATUS2 = of[1].CUST_STATUS2
                       /\ groups[g].prefecture = of[1].prefecture
            /\ ret.result.total_found = SumUrls(groups)
            /\ ret.result.total_companies = Len(groups)

\* Three hits: the first and the last share a jcn larger than the second's,
\* and differ in id and company fields.
C7_Witness ==
    /\ ret.op = "envelope"
    /\ Len(ret.results) = 3
    /\ ret.results[1].jcn > ret.results[2].jcn
    /\ ret.results[3].jcn = ret.results[1].jcn
    /\ ret.results[3].id # ret.results[1].id
    /\ ret.results[3].CUST_STATUS2 # ret.results[1].CUST_STATUS2
    /\ Len(ret.result.grouped_results) = 2

----------------------------------------------------------------------------
(* Properties of interleaved calls, checked under SpecConc *)

(* C2: once add_documents_batch has returned success, the first search that
   starts afterwards with any given argument tuple is a cache miss. *)
C2_FirstSearchAfterBatchMisses ==
    (ret.op = "search" /\ ret.first) => ~ret.hit

----------------------------------------------------------------------------
(* Properties of the hit and miss counters, checked under SpecLRU *)

\* The argument tuple was searched since the last write or clear_cache.
SearchedBefore(key) == \E i \in DOMAIN recent : recent[i] = key

\* The number of distinct other tuples searched since the tuple was last searched.
OthersSince(key) ==
    Len(recent) - (CHOOSE i \in DOMAIN recent : recent[i] = key)

(* C10 as stated: with no intervening write or clear_cache, the first search
   with a tuple counts one miss and calls the engine at most once, and every
   later search with the tuple counts one hit, no miss, and calls no engine. *)
C10_EveryLaterSearchHits ==
    [][(ret'.op = "search" /\ ~ret'.blank) =>
          IF SearchedBefore(ret'.key)
          THEN /\ cache'.hits = cache.hits + 1
               /\ cache'.misses = cache.misses
               /\ ret'.engine_calls = 0
          ELSE /\ cache'.misses = cache.misses + 1
               /\ cache'.hits = cache.hits
               /\ ret'.engine_calls <= 1
      ]_vars

(* C10 amended: the later search is a hit when fewer than 128 distinct other
   tuples were searched since the tuple was last searched. *)
C10_LaterSearchHitsUnlessEvicted ==
    [][(ret'.op = "search" /\ ~ret'.blank) =>
          /\ (SearchedBefore(ret'.key) /\ OthersSince(ret'.key) < maxsize) =>
                /\ cache'.hits = cache.hits + 1
                /\ cache'.misses = cache.misses
                /\ ret'.engine_calls = 0
          /\ ~SearchedBefore(ret'.key) =>
                /\ cache'.misses = cache.misses + 1
                /\ cache'.hits = cache.hits
                /\ ret'.engine_calls <= 1
      ]_vars

\* A repeated search was a hit although the cache was full and other tuples
\* had been searched since.
C10_Witness ==
    /\ ret.op = "search"
    /\ ret.hit
    /\ cache_size = maxsize
    /\ cache_hits = 1
    /\ recent[Len(recent)] = ret.key
    /\ Len(recent) > maxsize

\* The cached tuple used least recently: the one searched longest ago.
LeastRecentlyUsed(c, history) ==
    CHOOSE key \in CachedKeys(c) :
        \A other \in CachedKeys(c) :
            (CHOOSE i \in DOMAIN history : history[i] = key)
                <= (CHOOSE j \in DOMAIN history : history[j] = other)

(* C11: the cache never holds more than 128 results, one per argument tuple;
   a hit leaves the set of cached tuples as it was; a miss adds its tuple,
   and when 128 are held it drops the least recently used tuple and no
   other, and drops none when fewer are held. *)
C11_CapacityAndLruEviction ==
    [][/\ Len(cache'.entries) <= maxsize
       /\ Cardinality(CachedKeys(cache')) = Len(cache'.entries)
       /\ (ret'.op = "search" /\ ~ret'.blank) =>
              IF ret'.hit
              THEN CachedKeys(cache') = CachedKeys(cache)
              ELSE IF Len(cache.entries) = maxsize
                   THEN CachedKeys(cache') =
                            (CachedKeys(cache) \ {LeastRecentlyUsed(cache, recent)})
                                \cup {ret'.key}
                   ELSE CachedKeys(cache') = CachedKeys(cache) \cup {ret'.key}
      ]_vars

\* A miss on a full cache dropped the tuple with limit 2 and kept the tuple
\* with limit 1, which was inserted first but hit again later.
C11_Witness ==
    /\ ret.op = "search"
    /\ ~ret.hit
    /\ cache_size = maxsize
    /\ cache_hits = 1
    /\ Len(recent) = maxsize + 1
    /\ Key("ai", 1, "", "", "") \in CachedKeys(cache)
    /\ Key("ai", 2, "", "", "") \notin CachedKeys(cache)

----------------------------------------------------------------------------
(* Properties of the search journal called one call at a time, checked under
   SpecJournal, SpecRanking and SpecStartup *)

\* The number of entries of a sequence equal to a value.
Occurrences(seq, x) == Cardinality({i \in DOMAIN seq : seq[i] = x})

\* Two count tables hold the same count for every key.
SameCounts(d1, d2) ==
    \A k \in dict_keys(d1) \cup dict_keys(d2) : dict_get(d1, k, 0) = dict_get(d2, k, 0)

\* Two histories hold, for every user, the same entries in the same timestamp
\* order; entries with equal timestamps may be ordered differently.
SameHistory(h1, h2) ==
    \A u \in dict_keys(h1) \cup dict_keys(h2) :
        LET a == dict_get(h1, u, <<>>)
            b == dict_get(h2, u, <<>>)
        IN  /\ Len(a) = Len(b)
            /\ \A i \in DOMAIN a : a[i].timestamp = b[i].timestamp
            /\ \A i \in DOMAIN a : Occurrences(a, a[i]) = Occurrences(b, a[i])

SameTables(t1, t2) ==
    /\ SameCounts(t1.query_counts, t2.query_counts)
    /\ SameCounts(t1.keyword_counts, t2.keyword_counts)
    /\ SameCounts(t1.user_search_counts, t2.user_search_counts)
    /\ SameHistory(t1.user_history, t2.user_history)

(* C14: a new SearchLogger constructed over the log directory has
   query_counts, keyword_counts, user_search_counts and user_history equal
   to the tables of the logger that performed the log_search calls, up to
   the order of entries with equal timestamps, whatever the usernames. *)
C14_ReloadYieldsSameTables ==
    [][ret'.op = "SearchLogger" => SameTables(tables', tables)]_vars

\* The key a logged query is ranked under: normalized and lowercased.
RankingKey(query) ==
    CASE query \in {"AI", " ai"} -> "ai"
      [] query = "ML" -> "ml"
      [] query = "AI ML" -> "ai ml"
      [] OTHER -> ""

\* The number of logged events ranked under a key.
LoggedWithKey(k) ==
    Cardinality({i \in DOMAIN logged : RankingKey(logged[i].query) = k})

RankedKeys == {RankingKey(logged[i].query) : i \in DOMAIN logged} \ {""}

(* C18: get_popular_queries(limit) returns at most `limit` entries, in
   non-increasing count order, one per normalized lowercased query, each
   with the number of logged events of that query, and no query left out
   has more events than one returned; after AI, AI, ML, AI, ML
   get_popular_queries(2) is [ai: 3, ml: 2]. *)
C18_PopularQueries ==
    ret.op = "get_popular_queries" =>
        LET popular == ret.popular
            returned == {popular[i].query : i \in DOMAIN popular}
        IN  /\ Len(popular) = Min(ret.limit, Cardinality(RankedKeys))
            /\ \A i \in 1..(Len(popular) - 1) : popular[i].count >= popular[i+1].count
            /\ \A i, j \in DOMAIN popular : popular[i].query = popular[j].query => i = j
            /\ \A i \in DOMAIN popular :
                   /\ popular[i].query \in RankedKeys
                   /\ popular[i].count = LoggedWithKey(popular[i].query)
            /\ \A k \in RankedKeys \ returned :
                   \A i \in DOMAIN popular : LoggedWithKey(k) <= popular[i].count
            /\ ([i \in DOMAIN logged |-> logged[i].query] = <<"AI", "AI", "ML", "AI", "ML">>
                   /\ ret.limit = 2) =>
                  popular = <<[query |-> "ai", count |-> 3], [query |-> "ml", count |-> 2]>>

\* The scenario: AI, AI, ML, AI, ML logged, then get_popular_queries(2).
C18_Witness ==
    /\ ret.op = "get_popular_queries"
    /\ ret.limit = 2
    /\ [i \in DOMAIN logged |-> logged[i].query] = <<"AI", "AI", "ML", "AI", "ML">>
    /\ ret.popular = <<[query |-> "ai", count |-> 3], [query |-> "ml", count |-> 2]>>

\* The events of the well-formed lines of a journal file, in file order.
WellFormedEntries(lines) ==
    LET events == SelectSeq(lines, LAMBDA line : line.json = "object")
    IN  [i \in DOMAIN events |-> events[i].entry]

(* C16: after initialization every well-formed line of every journal file is
   counted, whatever other lines the files hold: per file, the user's count
   and history length equal the number of well-formed lines of the file, and
   each query's count is the number of well-formed lines with that query. *)
C16_BadLinesSkipped ==
    ret.op = "SearchLogger" =>
        /\ \A file \in DOMAIN journal :
               LET entries == WellFormedEntries(journal[file])
               IN  /\ dict_get(tables.user_search_counts, file, 0) = Len(entries)
                   /\ Len(dict_get(tables.user_history, file, <<>>)) = Len(entries)
        /\ \A k \in {"ai", "ml"} :
               LET WithKey(file) ==
                       Cardinality({i \in DOMAIN WellFormedEntries(journal[file]) :
                           RankingKey(WellFormedEntries(journal[file])[i].query) = k})
                   both == IF "ab" \in DOMAIN journal THEN WithKey("ab") ELSE 0
                   other == IF "cd" \in DOMAIN journal THEN WithKey("cd") ELSE 0
               IN  dict_get(tables.query_counts, k, 0) = both + other

----------------------------------------------------------------------------
(* Properties of the search journal under parallel calls, checked under
   SpecJournalConc *)

\* The log_search calls that returned after a successful append with a
\* query whose normalized form is not empty.
CountedCalls == {i \in DOMAIN logged : RankingKey(logged[i].query) # ""}

\* The events found in the directory at startup (stamped before the clock's
\* first reading).
LoadedAtStartup ==
    Cardinality({line \in UNION {{<<file, i>> : i \in DOMAIN journal[file]} :
                                    file \in DOMAIN journal} :
                    journal[line[1]][line[2]].entry.timestamp = 0})

(* C13: in every state the sum of query_counts is the count loaded at
   startup plus the number of log_search calls that completed successfully
   with a non-empty normalized query, and get_rankings_stats returns that
   number as total_queries. *)
C13_TotalQueries ==
    /\ rankings_stats(tables).total_queries
           = LoadedAtStartup + Cardinality(CountedCalls)
    /\ ret.op = "get_rankings_stats" =>
           ret.stats.total_queries = LoadedAtStartup + Cardinality(CountedCalls)

\* Two parallel calls of different users were counted on top of a loaded
\* event, the call stamped later first, and the statistics were read after.
C13_Witness ==
    /\ ret.op = "get_rankings_stats"
    /\ ret.stats.total_queries = 3
    /\ LoadedAtStartup = 1
    /\ \E i, j \in CountedCalls :
           /\ i < j
           /\ logged[i].username # logged[j].username
           /\ logged[i].entry.timestamp > logged[j].entry.timestamp

\* The lines of a journal file that hold a given entry.
LinesWith(jr, file, entry) ==
    IF file \in DOMAIN jr
    THEN Cardinality({i \in DOMAIN jr[file] : jr[file][i] = json_dumps(entry)})
    ELSE 0

\* The event lines of a journal file whose query is ranked under a key
\* (under any key when k is "*").
LinesRanked(jr, file, k) ==
    IF file \in DOMAIN jr
    THEN Cardinality({i \in DOMAIN jr[file] :
             /\ jr[file][i].json = "object"
             /\ RankingKey(jr[file][i].entry.query) # ""
             /\ k # "*" => RankingKey(jr[file][i].entry.query) = k})
    ELSE 0

\* Everything the tables count is on disk: every history entry of a user is
\* a line of the user's file, the counts of the users of a file do not
\* exceed the file's event lines, and no query is counted more often than
\* the files hold it.
Durable(jr, t) ==
    /\ \A u \in dict_keys(t.user_history) :
           LET history == dict_get(t.user_history, u, <<>>)
           IN  \A i \in DOMAIN history :
                   Occurrences(history, history[i])
                       <= LinesWith(jr, safe_username(u), history[i])
    /\ \A file \in {safe_username(u) : u \in Usernames} :
           LET users == {u \in Usernames : safe_username(u) = file}
               counted(u) == dict_get(t.user_search_counts, u, 0)
               first == CHOOSE u \in users : TRUE
               total == counted(first)
                        + (IF users = {first} THEN 0
                           ELSE counted(CHOOSE u \in users : u # first))
           IN  total <= LinesRanked(jr, file, "*")
    /\ \A k \in dict_keys(t.query_counts) :
           dict_get(t.query_counts, k, 0)
               <= LinesRanked(jr, "ab", k) + LinesRanked(jr, "cd", k)

(* C15: in every state each event the tables count has its line in the
   user's journal file, and a log_search whose append fails leaves the four
   tables as they were. *)
C15_DurableBeforeVisible ==
    [][/\ Durable(journal', tables')
       /\ (ret'.op = "log_search" /\ ~ret'.ok /\ ret' # ret) => tables' = tables
      ]_vars

\* An append failed after another call had been counted, and the call made
\* after it has its line on disk and is not counted yet.
C15_Witness ==
    /\ ret.op = "log_search"
    /\ ~ret.ok
    /\ Cardinality(CountedCalls) >= 1
    /\ \E t \in Threads : pc[t] = "acquire"
    /\ Durable(journal, tables)

(* C17: in every state the timestamps of user_history[u] are non-increasing
   from index 0, and get_user_searches(u, k) returns k events of u none of
   which is older than an event of u it leaves out. *)
C17_HistoryMostRecentFirst ==
    /\ \A u \in dict_keys(tables.user_history) :
           LET history == dict_get(tables.user_history, u, <<>>)
           IN  \A i \in 1..(Len(history) - 1) :
                   history[i].timestamp >= history[i+1].timestamp
    /\ ret.op = "get_user_searches" =>
           LET history == dict_get(tables.user_history, ret.username, <<>>)
           IN  /\ Len(ret.searches) = Min(ret.limit, Len(history))
               /\ \A i \in DOMAIN ret.searches :
                      \A j \in (Len(ret.searches) + 1)..Len(history) :
                          ret.searches[i].timestamp >= history[j].timestamp

----------------------------------------------------------------------------
(* Properties of the multi-index router, checked under SpecRouter *)

\* The documents of a shard that a query matches.
ShardMatches(ix, query) ==
    {i \in DOMAIN ix : Strip(query) # "" /\ Matches(ix[i], query)}

(* C19: search with an empty or unconfigured prefecture returns an error
   envelope with zero results, calls no service and leaves the cache as it
   was; with a configured prefecture P it calls the service of P and no
   other: the hits are documents of P's shard, as many as P's shard matches,
   and a result cached by the call is cached for the service of P. *)
C19_RouterSearch ==
    [][ret'.op = "router.search" =>
          IF ret'.prefecture \notin Configured
          THEN /\ "error" \in DOMAIN ret'.result
               /\ ret'.result.grouped_results = <<>>
               /\ ret'.result.total_found = 0
               /\ ret'.result.total_companies = 0
               /\ ret'.called = {}
               /\ cache' = cache
          ELSE /\ "error" \notin DOMAIN ret'.result
               /\ ret'.called = {ret'.prefecture}
               /\ EnvelopeIds(ret'.result) \subseteq IndexedIds(shards[ret'.prefecture])
               /\ ret'.result.total_found
                      = Min(10, Cardinality(ShardMatches(shards[ret'.prefecture],
                                                         ret'.query)))
               /\ \A key \in CachedKeys(cache') \ CachedKeys(cache) :
                      key.self = ret'.prefecture
      ]_vars

\* A search routed to osaka returned osaka's document while tokyo's shard
\* held another document matching the query.
C19_Witness ==
    /\ ret.op = "router.search"
    /\ ret.prefecture = "osaka"
    /\ ret.result.total_found = 1
    /\ ShardMatches(shards["tokyo"], ret.query) # {}
    /\ EnvelopeIds(ret.result) \cap IndexedIds(shards["tokyo"]) = {}

RouterWrites ==
    {"router.add_document", "router.add_documents_batch", "router.clear_index",
     "router.delete_document"}

\* A write addressed to a prefecture leaves the shards of the other
\* prefectures as they were.
RouterWriteFrame ==
    \A prefecture \in Configured \ {ret'.prefecture} :
        shards'[prefecture] = shards[prefecture]

(* C20: every router write (add, delete, clear) addressed to prefecture P
   leaves every other shard's documents unchanged, and a write addressed to
   an unconfigured prefecture returns False and changes no shard. *)
C20_RouterWrites ==
    [][ret'.op \in RouterWrites =>
          /\ RouterWriteFrame
          /\ ret'.prefecture \notin Configured =>
                 /\ ret'.returned = "False"
                 /\ shards' = shards
      ]_vars

----------------------------------------------------------------------------
(* Properties of the export cache, checked under SpecExport *)

IndexWrites == {"add_document", "delete_document", "clear_index"}

(* C21: a download_csv request whose cache file exists answers 200 with the
   file's content, calls no engine search and leaves the cache directory as
   it is; index writes leave the cache directory as it is; a file that exists
   keeps its content and goes away only when it is deleted by the operator. *)
C21_CacheFileServedAsIs ==
    [][/\ (/\ ret'.op = "download_csv"
           /\ ret'.status \in {200, 500}
           /\ ret'.cache_key \in DOMAIN csv_cache) =>
              /\ ret'.status = 200
              /\ ret'.body = csv_cache[ret'.cache_key]
              /\ ret'.engine_calls = 0
              /\ csv_cache' = csv_cache
       /\ ret'.op \in IndexWrites => csv_cache' = csv_cache
       /\ \A cache_key \in DOMAIN csv_cache :
              IF cache_key \in DOMAIN csv_cache'
              THEN csv_cache'[cache_key] = csv_cache[cache_key]
              ELSE ret'.op = "rm"
      ]_vars

\* An error record is served from the cache while the index holds a document
\* and the file of another key still has the header alone, written before
\* the document was indexed.
C21_Witness ==
    /\ ret.op = "download_csv"
    /\ ret.from_cache
    /\ ret.body.lines = error_csv
    /\ \E i \in DOMAIN index : Matches(index[i], "ai")
    /\ \E cache_key \in DOMAIN csv_cache :
           /\ cache_key # ret.cache_key
           /\ csv_cache[cache_key].lines = <<CsvHeader>>

----------------------------------------------------------------------------
(* Properties of the tokenizers, checked under SpecTokenizer *)

(* C22: tokenize never raises, and when the analyser failed while the text
   was being tokenized the result is the empty sequence. *)
C22_TokenizeEmptyOnError ==
    ret.op = "tokenize" =>
        /\ ret.raised = "none"
        /\ ret.error_at # 0 => ret.tokens = <<>>

(* C29: get_tokenizer(None) raises nothing and returns the MeCab variant when
   MeCabTokenizer() can be constructed and the Janome variant when its
   construction fails in any way. *)
C29_AutoDetectAlwaysReturns ==
    (ret.op = "get_tokenizer" /\ ret.tokenizer_type = "None") =>
        /\ ret.raised = "none"
        /\ ret.returned = IF ret.MeCabTokenizer = "ok"
                          THEN "MeCabTokenizer" ELSE "JanomeTokenizer"

----------------------------------------------------------------------------
(* Properties of _cached_search, checked under SpecFault *)

\* What a document must hold to be a match of a compiled query: one of its
\* parenthesised tokens, every word of its quoted phrase.
SatisfiesCompiled(terms, processed_query) ==
    CASE processed_query = "(ai)" -> "ai" \in terms
      [] processed_query = "(ai) (ml)" -> "ai" \in terms \/ "ml" \in terms
      [] processed_query = "\"ai ml\"" -> {"ai", "ml"} \subseteq terms
      [] OTHER -> FALSE

(* C23: a cache miss whose compiled query is not empty calls the engine
   search once, with the compiled query string that the envelope returns as
   processed_query, and every hit is a match of that compiled query; a miss
   whose compiled query is empty calls no engine search and caches ([], ""). *)
C23_EngineRunsCompiledQuery ==
    (ret.op = "search" /\ ~ret.hit) =>
        IF ret.result.processed_query # ""
        THEN /\ ret.engine_calls = 1
             /\ ret.engine_query = <<ret.result.processed_query>>
             /\ \A h \in DOMAIN ret.cached.results :
                    \E d \in DOMAIN index :
                        /\ index[d].id = ret.cached.results[h].id
                        /\ SatisfiesCompiled(index[d].content_tokens,
                                             ret.result.processed_query)
        ELSE /\ ret.engine_calls = 0
             /\ ret.cached = [results |-> <<>>, processed_query |-> ""]

(* C30: in every state each cached entry holds the hits the engine search
   returns for its key on the current index. *)
C30_CacheCoherence ==
    \A i \in DOMAIN cache.entries :
        LET key == cache.entries[i].key
        IN  cache.entries[i].value.results =
                cached_search_body(index, key, "none").results


----------------------------------------------------------------------------
(* Properties of the index writer, checked under SpecWriter *)

WriterOps == {"add_document", "add_documents_batch", "delete_document"}

\* C24: when add_document, add_documents_batch or delete_document returns,
\* on success and on every failure path, the writer the call acquired has
\* been committed or cancelled, and the lock of the directory is not left
\* held by a call that has returned.
C24_WriterClosedOnReturn ==
    /\ (ret.op \in WriterOps /\ ret.acquired) => ret.closed
    /\ ~Leaked(writelock)

\* What a successful write call leaves in the index.
EffectPresent(ix, call) ==
    CASE call.op = "add_document" ->
             \E i \in DOMAIN ix : ix[i] = StoredDoc(call.rec)
      [] call.op = "add_documents_batch" ->
             \A k \in DOMAIN call.documents :
                 \E i \in DOMAIN ix : ix[i] = StoredDoc(call.documents[k])
      [] OTHER -> \A i \in DOMAIN ix : ix[i].id # call.doc_id

\* The threads that are between the first and the last change a write
\* operation makes to the directory.
Modifying(p) == {t \in Threads : p[t] \in {"writing", "clearing"}}

\* C25: concurrent write operations on one directory: no clear_index removes
\* the directory while another call holds the writer, at most one operation
\* is modifying the directory at a time, and a write that returns success
\* has its whole effect in the index.
C25_WritesSerialize ==
    [][/\ \A t \in Threads :
              (pc[t] = "idle" /\ pc'[t] = "clearing") => writelock \notin Threads
       /\ Cardinality(Modifying(pc')) <= 1
       /\ \A t \in Threads :
              (pc[t] = "writing" /\ pc'[t] = "idle" /\ ret'.ok)
                  => EffectPresent(index', local[t])]_vars


----------------------------------------------------------------------------
(* Properties of the services' cache, checked under SpecRouterStats *)

\* The cached entries of the service `self`.
EntriesOf(c, self) == {key \in CachedKeys(c) : key.self = self}

\* C26: the cache is per SearchService instance: a write on one service
\* evicts no entry of another service, and get_stats of a service reports
\* as cache_size the number of entries of that service alone.
C26_CachePerInstance ==
    [][/\ (ret'.op \in RouterWrites /\ ret'.prefecture \in DOMAIN shards)
              => \A self \in DOMAIN shards \ {routed_service(ret'.prefecture)} :
                     EntriesOf(cache, self) \subseteq EntriesOf(cache', self)
       /\ (ret'.op = "router.get_stats" /\ ret'.prefecture \in DOMAIN shards)
              => ret'.stats.cache_size
                     = Cardinality(EntriesOf(cache', routed_service(ret'.prefecture)))]_vars


----------------------------------------------------------------------------
(* Properties of concurrent exports, checked under SpecExportConc *)

\* A whole cache file starts with the BOM and holds the error record, or
\* the header and the rows after it.
CompleteCsv(body) ==
    /\ body.bom
    /\ \/ body.lines = error_csv
       \/ /\ body.lines # <<>>
          /\ Head(body.lines) = CsvHeader

\* C27: under concurrent export requests for the same parameters, every
\* request that answers with the cache file serves a completely written
\* file: the complete CSV, or the complete error record.
C27_NoPartialCacheFile ==
    (ret.op = "download_csv" /\ ret.status = 200) => CompleteCsv(ret.body)


----------------------------------------------------------------------------
(* Properties of the ranking tables, checked under SpecJournalNames *)

\* The number of history entries over all users.
RECURSIVE sum_lengths(_)
sum_lengths(d) == IF d = <<>> THEN 0 ELSE Len(Head(d).value) + sum_lengths(Tail(d))

\* C28: in every state a reader of the rankings can observe (the ranking
\* lock is free), the sum of query_counts, the sum of user_search_counts and
\* the number of user_history entries over all users are equal.
C28_TablesAgree ==
    lock = 0 =>
        /\ sum_values(tables.query_counts) = sum_values(tables.user_search_counts)
        /\ sum_values(tables.user_search_counts) = sum_lengths(tables.user_history)

====
